---- MODULE Spec2Model ----
(***************************************************************************)
(* Connection supervisors, dedup cache, reconnect backoff and webhook      *)
(* codec of the openclaw-china channel plugins.                            *)
(*                                                                         *)
(* Specifications:                                                         *)
(*   Spec      the DingTalk stream supervisor and the QQ gateway           *)
(*             supervisor (module state + every handler); `mode` selects   *)
(*             which of the two channel modules a behaviour exercises.     *)
(*   SpecMore  Spec with one more call of each monitor function            *)
(*   FairSpec  Spec plus weak fairness of timers and promise continuations *)
(*   SpecDedup    the DingTalk intake: frames through the dedup cache      *)
(*   SpecBackoff  resolveReconnectDelayMs on each pair of arguments        *)
(*   SpecCodec    WXBizJsonMsgCrypt encrypt followed by decrypt            *)
(***************************************************************************)
EXTENDS Integers, Sequences, FiniteSets, TLC

VARIABLES
    mode,               \* which channel module this behaviour exercises
    op,                 \* name of the public operation / handler that ran last
    (* ---- DingTalk: module state (part_001:62-65) ---- *)
    currentClient,      \* 0 = null, c = the client object owned by loop c
    currentAccountId,   \* "none" = null
    currentPromise,     \* 0 = null, c = runPromise created by call c
    currentStop,        \* 0 = null, c = the stop closure created by call c
    (* ---- DingTalk: one entry per call of monitorDingtalkProvider ---- *)
    call,               \* position of the async function body
    acct,               \* opts.accountId of the call
    aborted,            \* opts.abortSignal.aborted before the monitor starts,
                        \* stopController.signal.aborted (initialised from it) after
    lpc,                \* position of runGatewayLoop / runGatewaySession
    client,             \* the loop's DWClient: none, live, closed (disconnect called)
    promise,            \* runPromise: none, pending, resolved, rejected
    (* ---- QQ: module state (qqbot monitor.ts:44-47) ---- *)
    activeSocket,       \* 0 = null, s = socket s
    activeAccountId,    \* "none" = null
    activePromise,      \* 0 = null, m = the promise created by call m
    activeStop,         \* 0 = null, m = the stop closure created by call m
    (* ---- QQ: one entry per call of monitorQQBotProvider (its closure) ---- *)
    qcall,              \* new, threw, joined, started (the executor ran)
    qacct,              \* opts.accountId of the call
    stopped,            \* closure variable `stopped`
    connecting,         \* closure variable `connecting`
    cpc,                \* position of connect(): idle, token, url
    heartbeatTimer,     \* heartbeatTimer !== null
    reconnectTimer,     \* reconnectTimer !== null
    qpromise,           \* none, pending, resolved
    (* ---- QQ: WebSocket objects ---- *)
    sowner,             \* 0 = no such object, m = created by connect() of call m
    sstate,             \* none, CONNECTING, OPEN, CLOSING (a closed socket that has
                        \* emitted "close" is no object any more: none)
    (* ---- DingTalk intake (part_002) ---- *)
    processedMessages,  \* the Map, as the sequence of <<messageId, timestamp>> in
                        \* insertion order
    now,                \* the last value read from Date.now(), milliseconds
    delivered,          \* what happened so far: one record per frame handed to
                        \* processDingtalkInbound and per cache clear
    (* ---- resolveReconnectDelayMs (part_001:217-224) ---- *)
    attempt,            \* argument attempt
    randomValue,        \* argument randomValue, in thousandths
    delayMs,            \* the value returned, -1 before the call
    (* ---- WXBizJsonMsgCrypt (wecom crypto.ts) ---- *)
    aesKey,             \* this.aesKey: 32 bytes
    receiverId,         \* this.receiverId: a string, as its sequence of code points
    text,               \* the plaintext given to encrypt, as its code points
    random,             \* the 16 bytes crypto.randomBytes returns in encrypt
    encrypted,          \* what encrypt returned: base64 digits, <<>> before the call
    decrypted,          \* what decrypt did: <<>> before the call, <<"ok", string>>
                        \* or <<"error">> (it threw)
    (* ---- WXBizJsonMsgCrypt.getSignature (wecom crypto.ts:74-79) ---- *)
    supplied,           \* token, timestamp, nonce, encrypt of the first call
    signature,          \* what the first call returned, <<>> before it
    resupplied,         \* token, timestamp, nonce, encrypt of the second call
    signature2,         \* what the second call returned, <<>> before it
    (* ---- wecom-app webhook: module state (wecom-app monitor.ts:52-54) ---- *)
    webhookTargets,     \* the targets registered on the webhook path, in
                        \* registration order (the accounts; a target's status
                        \* sink is `sinkCalls` at the target's index)
    streams,            \* the Map streamId -> StreamState, as the sequence of
                        \* StreamStates in insertion order
    msgidToStreamId,    \* the Map msgid -> streamId, 0 = no entry
    core,               \* tryGetWecomAppRuntime() returns a runtime
    (* ---- wecom-app webhook: requests, clock and what was called ---- *)
    wnow,               \* Date.now(), milliseconds
    events,             \* number of dispatcher callbacks, settled dispatches and
                        \* clock advances so far
    rq,                 \* one entry per HTTP request: position of the handler,
                        \* what it captured, the response
    sinkCalls,          \* the statusSink calls so far: which target's sink, with
                        \* which field, for which request or stream
    decryptCalls,       \* the calls of decryptWecomAppEncrypted so far:
                        \* <<request, accountId>>
    dispatches,         \* the calls of dispatchWecomAppMessage so far, each with
                        \* the state of the promise it returned
    (* ---- truncateUtf8Bytes, splitMessageByBytes (wecom-app monitor.ts:84-123) ---- *)
    inputText,          \* the argument text, as its code points
    maxBytes,           \* the argument maxBytes
    handlers,           \* the handleDingtalkMessage calls made by the bot
                        \* handler, in the order they were started: pending,
                        \* returned or rejected
    qtoken,             \* the QQ token cache: tokenCache, tokenPromise, the
                        \* clock, the token requests in flight, the
                        \* getAccessToken calls made
    gw,                 \* the closure of one monitorQQBotProvider call that
                        \* has started: its locals, its sockets, the timers
                        \* armed in the runtime, the last frame it sent
    gateway,            \* the runGatewayLoop call that runs the sessions: its
                        \* reconnectAttempt, metrics.reconnectCountTotal and
                        \* the attempt number it last computed a delay for
    session,            \* one runGatewaySession call: its locals, the clock,
                        \* what it last read from the client, what it logged
                        \* and returned
    returned            \* what the call returned: a string (truncateUtf8Bytes) or
                        \* an array of strings (splitMessageByBytes)

dmodule == <<currentClient, currentAccountId, currentPromise, currentStop>>
dcalls  == <<call, acct, aborted>>
dloops  == <<lpc, client, promise>>
dvars   == <<dmodule, dcalls, dloops>>
qmodule == <<activeSocket, activeAccountId, activePromise, activeStop>>
qcalls  == <<qcall, qacct>>
qclos   == <<stopped, connecting, cpc, heartbeatTimer, reconnectTimer, qpromise>>
qsocks  == <<sowner, sstate>>
qvars   == <<qmodule, qcalls, qclos, qsocks>>
ivars   == <<processedMessages, now, delivered>>
bvars   == <<attempt, randomValue, delayMs>>
cvars   == <<aesKey, receiverId, text, random, encrypted, decrypted>>
svars   == <<supplied, signature, resupplied, signature2>>
wmodule == <<webhookTargets, streams, msgidToStreamId, core>>
wvars   == <<wmodule, wnow, events, rq, sinkCalls, decryptCalls, dispatches>>
tvars   == <<inputText, maxBytes, returned>>
gvars   == <<session, gateway>>
hvars   == <<gw, handlers, qtoken>>
evars   == <<svars, wvars, tvars, gvars, hvars>>
vars    == <<mode, op, dvars, qvars, ivars, bvars, cvars, evars>>

\* Number of monitorDingtalkProvider calls a behaviour of Spec makes; a
\* behaviour of SpecMore makes one more.
NCalls == 2

Calls == 1..(NCalls + 1)

\* Number of monitorQQBotProvider calls a behaviour of Spec makes (SpecMore:
\* one more), and number of WebSocket objects a behaviour creates.
NQCalls == 1
MaxSockets == 1

QCalls == 1..(NQCalls + 1)
Sockets == 1..MaxSockets
Accounts == {"A", "B"}

\* dingtalk timing constants, milliseconds
WATCHDOG_INTERVAL_MS == 5000
CONNECT_TIMEOUT_MS == 30000
DISCONNECT_GRACE_MS == 15000

\* Values of `now - sessionStartAt` / `now - disconnectedAt` a watchdog tick may read.
ElapsedSamples == {CONNECT_TIMEOUT_MS, CONNECT_TIMEOUT_MS + WATCHDOG_INTERVAL_MS}
GraceSamples == {DISCONNECT_GRACE_MS - WATCHDOG_INTERVAL_MS, DISCONNECT_GRACE_MS}

(***************************************************************************)
(* DingTalk stream supervisor                                              *)
(*                                                                         *)
(* A call of monitorDingtalkProvider is one entry of `call`; the loop it   *)
(* starts (runGatewayLoop with the sessions it runs) is the entry of `lpc` *)
(* with the same index.  Every await is a separate step.  The session's    *)
(* local variables and clock readings are inputs of the watchdog step.     *)
(***************************************************************************)

InitDingtalk ==
    /\ currentClient = 0
    /\ currentAccountId = "none"
    /\ currentPromise = 0
    /\ currentStop = 0
    /\ call = [c \in Calls |-> "new"]
    /\ acct = [c \in Calls |-> "none"]
    /\ aborted = [c \in Calls |-> FALSE]
    /\ lpc = [c \in Calls |-> "none"]
    /\ client = [c \in Calls |-> "none"]
    /\ promise = [c \in Calls |-> "none"]

\* The guard at the head of monitorDingtalkProvider: "throw" on an account
\* mismatch, "reuse" when a promise is stored, "fresh" otherwise.
StartGuard(a) ==
    IF currentPromise # 0
    THEN IF currentAccountId # "none" /\ currentAccountId # a THEN "throw" ELSE "reuse"
    ELSE "fresh"

\* monitorDingtalkProvider up to its first await (ensureGatewayHttpEnabled).
\* Calls are numbered in the order in which they are made and the first one
\* names account "A".  A call ends as "threw", as "joined" (currentPromise was
\* returned) or goes on to "prestart".
MonitorInvoke(c, a, cfgOk) ==
    /\ call[c] = "new"
    /\ \A k \in Calls : k < c => call[k] # "new"
    /\ c = 1 => a = "A"
    /\ acct' = [acct EXCEPT ![c] = a]
    /\ call' = [call EXCEPT ![c] =
                  CASE StartGuard(a) = "throw" \/ (StartGuard(a) = "fresh" /\ ~cfgOk) -> "threw"
                    [] StartGuard(a) = "reuse" -> "joined"
                    [] OTHER -> "prestart"]
    /\ UNCHANGED <<dmodule, aborted, dloops>>

\* The decision of one pass of the watchdog loop body of runGatewaySession:
\* the reconnect reason it returns, or "continue" (sleep and loop).
\* firstConnected is firstConnectedAt !== null and disconnected is
\* disconnectedAt !== null at the head of the pass; elapsed is
\* now - sessionStartAt and sinceDisc is now - disconnectedAt.
WatchdogOutcome(connected, firstConnected, disconnected, elapsed, sinceDisc) ==
    IF ~connected /\ ~firstConnected /\ elapsed > CONNECT_TIMEOUT_MS
    THEN "connect_timeout"
    ELSE IF ~connected /\ firstConnected /\ disconnected /\ sinceDisc >= DISCONNECT_GRACE_MS
    THEN "connection_lost"
    ELSE "continue"

\* runGatewayLoop returns (ok) or throws, and the .finally callback attached
\* to its promise runs: the promise settles and, if it is still the stored
\* one, the module state is cleared.  Only promise continuations can run
\* between the two, and none of them reads what the callback writes.
\* `stored` is currentPromise at that moment.
LoopExit(c, ok, stored) ==
    /\ lpc' = [lpc EXCEPT ![c] = "done"]
    /\ promise' = [promise EXCEPT ![c] = IF ok THEN "resolved" ELSE "rejected"]
    /\ IF stored = c
       THEN /\ currentClient' = 0
            /\ currentAccountId' = "none"
            /\ currentStop' = 0
            /\ currentPromise' = 0
       ELSE /\ currentClient' = IF currentClient = c THEN 0 ELSE currentClient
            /\ UNCHANGED <<currentAccountId, currentStop, currentPromise>>

\* Mutant of EndSession: a session that ends with a reconnect outcome ends the
\* loop with an error instead of going to the backoff sleep.
EndSession_Fatal(c, sessionStopped) ==
    /\ client' = [client EXCEPT ![c] = "closed"]
    /\ LoopExit(c, sessionStopped \/ aborted[c], currentPromise)

\* The end of one iteration of runGatewayLoop: finally { safeDisconnect; clear
\* currentClient }, then break (stopped or aborted) or the backoff sleep.
EndSession(c, sessionStopped) ==
    /\ client' = [client EXCEPT ![c] = "closed"]
    /\ IF sessionStopped \/ aborted[c]
       THEN LoopExit(c, TRUE, currentPromise)
       ELSE /\ currentClient' = IF currentClient = c THEN 0 ELSE currentClient
            /\ lpc' = [lpc EXCEPT ![c] = "backoff"]
            /\ UNCHANGED <<currentAccountId, currentStop, currentPromise, promise>>

\* The head of one iteration of runGatewayLoop: construct the client (a throw
\* is fatal), publish it as currentClient and start a session up to the await
\* of raceConnectAttempt.
BeginSession(c, constructOk) ==
    /\ constructOk
    /\ client' = [client EXCEPT ![c] = "live"]
    /\ currentClient' = c
    /\ lpc' = [lpc EXCEPT ![c] = "connect"]

\* monitorDingtalkProvider after ensureGatewayHttpEnabled resolved: install
\* the stop closure, run runGatewayLoop up to its first await, store the promise.
MonitorStart(c, constructOk) ==
    /\ call[c] = "prestart"
    /\ call' = [call EXCEPT ![c] = "started"]
    /\ IF ~aborted[c] /\ constructOk
       THEN /\ BeginSession(c, constructOk)
            /\ currentAccountId' = acct[c]
            /\ currentStop' = c
            /\ currentPromise' = c
            /\ promise' = [promise EXCEPT ![c] = "pending"]
       ELSE /\ LoopExit(c, aborted[c], c)
            /\ UNCHANGED client
    /\ UNCHANGED <<acct, aborted>>

\* raceConnectAttempt settles and runGatewaySession continues: aborted,
\* timeout, error, an exception in the session, or started, and then the
\* first watchdog pass runs (nothing seen connected yet, no time elapsed).
ConnectSettled(c, outcome, connected) ==
    /\ lpc[c] = "connect"
    /\ IF aborted[c]
       THEN EndSession(c, TRUE)
       ELSE IF outcome = "started"
               /\ WatchdogOutcome(connected, FALSE, FALSE, 0, 0) = "continue"
       THEN /\ lpc' = [lpc EXCEPT ![c] = "watch"]
            /\ UNCHANGED <<dmodule, client, promise>>
       ELSE EndSession(c, FALSE)
    /\ UNCHANGED dcalls

\* sleepWithAbort(WATCHDOG_INTERVAL_MS) resolves: false after an abort, true
\* after the timer, and then the next watchdog pass runs (or throws).
WatchdogTick(c, connected, firstConnected, disconnected, elapsed, sinceDisc, threw) ==
    /\ lpc[c] = "watch"
    /\ IF aborted[c]
       THEN EndSession(c, TRUE)
       ELSE IF ~threw /\ WatchdogOutcome(connected, firstConnected, disconnected,
                                         elapsed, sinceDisc) = "continue"
       THEN UNCHANGED <<dmodule, dloops>>
       ELSE EndSession(c, FALSE)
    /\ UNCHANGED dcalls

\* The backoff sleepWithAbort resolves: break after an abort, next iteration
\* of the loop otherwise.
BackoffDone(c, constructOk) ==
    /\ lpc[c] = "backoff"
    /\ IF ~aborted[c] /\ constructOk
       THEN /\ BeginSession(c, constructOk)
            /\ UNCHANGED <<currentAccountId, currentPromise, currentStop, promise>>
       ELSE /\ LoopExit(c, aborted[c], currentPromise)
            /\ UNCHANGED client
    /\ UNCHANGED dcalls

\* opts.abortSignal fires before the monitor has settled: it is recorded for
\* the pre-start check, or onAbort aborts the stop controller.
AbortSignal(c) ==
    /\ call[c] = "prestart" \/ (call[c] = "started" /\ lpc[c] # "done")
    /\ ~aborted[c]
    /\ aborted' = [aborted EXCEPT ![c] = TRUE]
    /\ UNCHANGED <<dmodule, call, acct, dloops>>

\* Transport effects of stopDingtalkMonitor in the current state.
StopEffects ==
    IF currentStop # 0
    THEN IF aborted[currentStop] THEN {} ELSE {"abort"}
    ELSE IF currentClient # 0 THEN {"disconnect"} ELSE {}

\* Mutant of stopDingtalkMonitor: the fallback branch disconnects the client
\* and forgets to clear the module state.
stopDingtalkMonitor_KeepsState ==
    /\ \E c \in Calls : call[c] # "new"
    /\ IF currentStop # 0
       THEN /\ aborted' = [aborted EXCEPT ![currentStop] = TRUE]
            /\ UNCHANGED <<dmodule, client>>
       ELSE IF currentClient # 0
       THEN /\ client' = [client EXCEPT ![currentClient] = "closed"]
            /\ UNCHANGED <<dmodule, aborted>>
       ELSE UNCHANGED <<dmodule, client, aborted>>
    /\ UNCHANGED <<call, acct, lpc, promise>>

\* stopDingtalkMonitor.
stopDingtalkMonitor ==
    /\ \E c \in Calls : call[c] # "new"
    /\ IF currentStop # 0
       THEN /\ aborted' = [aborted EXCEPT ![currentStop] = TRUE]
            /\ UNCHANGED <<dmodule, client>>
       ELSE IF currentClient # 0
       THEN /\ client' = [client EXCEPT ![currentClient] = "closed"]
            /\ currentClient' = 0
            /\ currentAccountId' = "none"
            /\ currentPromise' = 0
            /\ currentStop' = 0
            /\ UNCHANGED aborted
       ELSE UNCHANGED <<dmodule, client, aborted>>
    /\ UNCHANGED <<call, acct, lpc, promise>>

(***************************************************************************)
(* QQ gateway supervisor                                                   *)
(***************************************************************************)

InitQQ ==
    /\ activeSocket = 0
    /\ activeAccountId = "none"
    /\ activePromise = 0
    /\ activeStop = 0
    /\ qcall = [m \in QCalls |-> "new"]
    /\ qacct = [m \in QCalls |-> "none"]
    /\ stopped = [m \in QCalls |-> FALSE]
    /\ connecting = [m \in QCalls |-> FALSE]
    /\ cpc = [m \in QCalls |-> "idle"]
    /\ heartbeatTimer = [m \in QCalls |-> FALSE]
    /\ reconnectTimer = [m \in QCalls |-> FALSE]
    /\ qpromise = [m \in QCalls |-> "none"]
    /\ sowner = [s \in Sockets |-> 0]
    /\ sstate = [s \in Sockets |-> "none"]

\* The guard at the head of monitorQQBotProvider.
QQStartGuard(a) ==
    IF activeSocket # 0
    THEN IF activeAccountId # "none" /\ activeAccountId # a THEN "throw"
         ELSE IF activePromise # 0 THEN "reuse" ELSE "throw"
    ELSE "fresh"

\* Socket states after cleanupSocket's close of activeSocket, given the states `st`.
ClosedActive(st) ==
    IF activeSocket # 0 /\ st[activeSocket] = "OPEN"
    THEN [st EXCEPT ![activeSocket] = "CLOSING"]
    ELSE st

\* cleanupSocket followed by scheduleReconnect, in the closure of call m.
CleanupAndReschedule(m, st) ==
    /\ heartbeatTimer' = [heartbeatTimer EXCEPT ![m] = FALSE]
    /\ reconnectTimer' = [reconnectTimer EXCEPT ![m] = ~stopped[m]]
    /\ sstate' = ClosedActive(st)
    /\ activeSocket' = 0

\* finish() in the closure of call m.
finish(m) ==
    IF stopped[m]
    THEN UNCHANGED <<qmodule, stopped, heartbeatTimer, reconnectTimer, qpromise, sstate>>
    ELSE /\ stopped' = [stopped EXCEPT ![m] = TRUE]
         /\ heartbeatTimer' = [heartbeatTimer EXCEPT ![m] = FALSE]
         /\ reconnectTimer' = [reconnectTimer EXCEPT ![m] = FALSE]
         /\ sstate' = ClosedActive(sstate)
         /\ activeSocket' = 0
         /\ activeAccountId' = "none"
         /\ activePromise' = 0
         /\ activeStop' = 0
         /\ qpromise' = [qpromise EXCEPT ![m] = "resolved"]

\* monitorQQBotProvider: the guard, then the promise executor up to the first
\* await of connect(), then the assignment of activePromise.
monitorQQBotProvider(m, a, cfgOk, preAborted) ==
    /\ qcall[m] = "new"
    /\ \A k \in QCalls : k < m => qcall[k] # "new"
    /\ m = 1 => a = "A"
    /\ qacct' = [qacct EXCEPT ![m] = a]
    /\ CASE QQStartGuard(a) = "throw" \/ (QQStartGuard(a) = "fresh" /\ ~cfgOk) ->
              /\ qcall' = [qcall EXCEPT ![m] = "threw"]
              /\ UNCHANGED <<qmodule, qclos, qsocks>>
         [] QQStartGuard(a) = "reuse" ->
              /\ qcall' = [qcall EXCEPT ![m] = "joined"]
              /\ UNCHANGED <<qmodule, qclos, qsocks>>
         [] OTHER ->
              /\ qcall' = [qcall EXCEPT ![m] = "started"]
              /\ activePromise' = m
              /\ UNCHANGED <<qsocks, heartbeatTimer, reconnectTimer>>
              /\ IF preAborted
                 THEN /\ stopped' = [stopped EXCEPT ![m] = TRUE]
                      /\ qpromise' = [qpromise EXCEPT ![m] = "resolved"]
                      /\ activeSocket' = 0
                      /\ activeAccountId' = "none"
                      /\ activeStop' = 0
                      /\ UNCHANGED <<connecting, cpc>>
                 ELSE /\ activeStop' = m
                      /\ connecting' = [connecting EXCEPT ![m] = TRUE]
                      /\ cpc' = [cpc EXCEPT ![m] = "token"]
                      /\ qpromise' = [qpromise EXCEPT ![m] = "pending"]
                      /\ activeSocket' = 0
                      /\ UNCHANGED <<activeAccountId, stopped>>

\* connect(): getAccessToken settles.
TokenSettled(m, ok) ==
    /\ cpc[m] = "token"
    /\ cpc' = [cpc EXCEPT ![m] = IF ok THEN "url" ELSE "idle"]
    /\ IF ok
       THEN UNCHANGED <<connecting, heartbeatTimer, reconnectTimer, sstate, activeSocket>>
       ELSE /\ CleanupAndReschedule(m, sstate)
            /\ connecting' = [connecting EXCEPT ![m] = FALSE]
    /\ UNCHANGED <<activeAccountId, activePromise, activeStop, qcalls, stopped,
                   qpromise, sowner>>

\* connect(): getGatewayUrl settles; on success the socket is created and
\* published, its handlers are attached.
UrlSettled(m, ok, s) ==
    /\ cpc[m] = "url"
    /\ cpc' = [cpc EXCEPT ![m] = "idle"]
    /\ connecting' = [connecting EXCEPT ![m] = FALSE]
    /\ IF ok
       THEN /\ sowner[s] = 0
            /\ \A t \in Sockets : t < s => sowner[t] # 0
            /\ sowner' = [sowner EXCEPT ![s] = m]
            /\ sstate' = [sstate EXCEPT ![s] = "CONNECTING"]
            /\ activeSocket' = s
            /\ activeAccountId' = qacct[m]
            /\ UNCHANGED <<heartbeatTimer, reconnectTimer>>
       ELSE /\ s = 1
            /\ CleanupAndReschedule(m, sstate)
            /\ UNCHANGED <<activeAccountId, sowner>>
    /\ UNCHANGED <<activePromise, activeStop, qcalls, stopped, qpromise>>

\* The socket reports "open".
SocketOpen(s) ==
    /\ sstate[s] = "CONNECTING"
    /\ sstate' = [sstate EXCEPT ![s] = "OPEN"]
    /\ UNCHANGED <<qmodule, qcalls, qclos, sowner>>

\* The socket emits "close" (its readyState is CLOSED by then): cleanupSocket
\* and scheduleReconnect run in the closure that created it.
SocketClose(s) ==
    /\ sstate[s] \in {"CONNECTING", "OPEN", "CLOSING"}
    /\ CleanupAndReschedule(sowner[s], [sstate EXCEPT ![s] = "none"])
    /\ sowner' = [sowner EXCEPT ![s] = 0]
    /\ UNCHANGED <<activeAccountId, activePromise, activeStop, qcalls, stopped,
                   connecting, cpc, qpromise>>

\* handleGatewayPayload for a frame received on socket s: hello (op 10)
\* starts the heartbeat, reconnect (op 7) and invalid session (op 9) clean up
\* and schedule a reconnect.
GatewayPayload(s, opcode) ==
    /\ sstate[s] \in {"OPEN", "CLOSING"}
    /\ IF opcode = 10
       THEN /\ heartbeatTimer' = [heartbeatTimer EXCEPT ![sowner[s]] = TRUE]
            /\ UNCHANGED <<reconnectTimer, sstate, activeSocket>>
       ELSE CleanupAndReschedule(sowner[s], sstate)
    /\ UNCHANGED <<activeAccountId, activePromise, activeStop, qcalls, stopped,
                   connecting, cpc, qpromise, sowner>>

\* The reconnect timer fires: reconnectTimer = null; connect() up to its
\* first await.
ReconnectTimerFired(m) ==
    /\ reconnectTimer[m]
    /\ IF stopped[m] \/ connecting[m]
       THEN /\ reconnectTimer' = [reconnectTimer EXCEPT ![m] = FALSE]
            /\ UNCHANGED <<connecting, cpc, heartbeatTimer, sstate, activeSocket>>
       ELSE /\ connecting' = [connecting EXCEPT ![m] = TRUE]
            /\ cpc' = [cpc EXCEPT ![m] = "token"]
            /\ heartbeatTimer' = [heartbeatTimer EXCEPT ![m] = FALSE]
            /\ reconnectTimer' = [reconnectTimer EXCEPT ![m] = FALSE]
            /\ sstate' = ClosedActive(sstate)
            /\ activeSocket' = 0
    /\ UNCHANGED <<activeAccountId, activePromise, activeStop, qcalls, stopped,
                   qpromise, sowner>>

\* opts.abortSignal of a started call fires while onAbort is registered
\* (it is registered unless the signal had fired before the call, and
\* finish removes it).
QQAbortSignal(m) ==
    /\ qcall[m] = "started"
    /\ ~stopped[m]
    /\ finish(m)
    /\ UNCHANGED <<qcall, qacct, connecting, cpc, sowner>>

\* Transport effects of stopQQBotMonitor in the current state.
QQStopEffects ==
    IF activeStop # 0
    THEN IF stopped[activeStop] THEN {}
         ELSE {"settle"} \cup (IF ClosedActive(sstate) # sstate THEN {"close"} ELSE {})
    ELSE IF activeSocket # 0 THEN {"close"} ELSE {}

\* stopQQBotMonitor.
stopQQBotMonitor ==
    /\ \E m \in QCalls : qcall[m] # "new"
    /\ IF activeStop # 0
       THEN finish(activeStop)
       ELSE IF activeSocket # 0
       THEN /\ sstate' = [sstate EXCEPT ![activeSocket] =
                             IF @ \in {"CONNECTING", "OPEN"} THEN "CLOSING" ELSE @]
            /\ activeSocket' = 0
            /\ activeAccountId' = "none"
            /\ activePromise' = 0
            /\ activeStop' = 0
            /\ UNCHANGED <<stopped, heartbeatTimer, reconnectTimer, qpromise>>
       ELSE UNCHANGED <<qmodule, stopped, heartbeatTimer, reconnectTimer, qpromise, sstate>>
    /\ UNCHANGED <<qcall, qacct, connecting, cpc, sowner>>

(***************************************************************************)
(* DingTalk intake: ACK, dedup cache, dispatch                             *)
(***************************************************************************)

MESSAGE_DEDUP_TTL_MS == 60000
MESSAGE_DEDUP_MAX_ENTRIES == 10000

\* Number of frames and cache clears in a behaviour of SpecDedup.
MaxFrames == 4

\* Message ids of frames; NoId is a frame without headers.messageId.
NoId == ""
MsgIds == {"m1", "m2"}

\* Milliseconds by which Date.now() has advanced when the next frame arrives.
Deltas == {1, MESSAGE_DEDUP_TTL_MS - 1}

InitDedup ==
    /\ processedMessages = <<>>
    /\ now = 0
    /\ delivered = <<>>

\* Map.prototype.get: the timestamp stored for id, -1 for undefined.
MapGet(cache, id) ==
    IF \E k \in DOMAIN cache : cache[k][1] = id
    THEN cache[CHOOSE k \in DOMAIN cache : cache[k][1] = id][2]
    ELSE -1

\* Map.prototype.delete.
MapDelete(cache, id) == SelectSeq(cache, LAMBDA e : e[1] # id)

\* Map.prototype.set: a new key goes to the end, an existing key keeps its place.
MapSet(cache, id, ts) ==
    IF MapGet(cache, id) = -1
    THEN Append(cache, <<id, ts>>)
    ELSE [k \in DOMAIN cache |-> IF cache[k][1] = id THEN <<id, ts>> ELSE cache[k]]

RECURSIVE DropOldest(_)
\* The while loop of trimMessageDedupeCache.
DropOldest(cache) ==
    IF Len(cache) > MESSAGE_DEDUP_MAX_ENTRIES THEN DropOldest(Tail(cache)) ELSE cache

\* A trim that removes the newest entries when the cache is too large.
trimMessageDedupeCache_DropNewest(cache, t) ==
    LET fresh == SelectSeq(cache, LAMBDA e : ~(t - e[2] > MESSAGE_DEDUP_TTL_MS))
    IN  IF Len(fresh) > MESSAGE_DEDUP_MAX_ENTRIES
        THEN SubSeq(fresh, 1, MESSAGE_DEDUP_MAX_ENTRIES)
        ELSE fresh

\* trimMessageDedupeCache: the cache after the call.
trimMessageDedupeCache(cache, t) ==
    DropOldest(SelectSeq(cache, LAMBDA e : ~(t - e[2] > MESSAGE_DEDUP_TTL_MS)))

\* Mutant of isDuplicateMessage: the window test is `<=`.
isDuplicateMessage_Inclusive(cache, streamMessageId, t) ==
    LET previous == MapGet(cache, streamMessageId)
    IN  IF previous # -1 /\ t - previous <= MESSAGE_DEDUP_TTL_MS
        THEN [dup |-> TRUE, cache |-> cache]
        ELSE [dup |-> FALSE,
              cache |-> trimMessageDedupeCache(
                            MapSet(MapDelete(cache, streamMessageId), streamMessageId, t), t)]

\* isDuplicateMessage: the value returned and the cache after the call.
isDuplicateMessage(cache, streamMessageId, t) ==
    LET previous == MapGet(cache, streamMessageId)
    IN  IF previous # -1 /\ t - previous < MESSAGE_DEDUP_TTL_MS
        THEN [dup |-> TRUE, cache |-> cache]
        ELSE [dup |-> FALSE,
              cache |-> trimMessageDedupeCache(
                            MapSet(MapDelete(cache, streamMessageId), streamMessageId, t), t)]

\* The calls processDingtalkInbound makes for one frame, in program order:
\* socketCallBackResponse ("ack", and onAckError when it throws) and
\* isDuplicateMessage ("dedup") only for a frame with a message id, then
\* onDedupeHit and return for a duplicate, otherwise parseRawMessage and
\* either onMessageAccepted and handleDingtalkMessage or onParseError.
InboundSteps_DedupFirst(id, ackThrows, dup, parses) ==
    (IF id # NoId THEN <<"dedup">> ELSE <<>>)
    \o (IF dup THEN <<"onDedupeHit">>
        ELSE (IF id # NoId
              THEN <<"ack">> \o (IF ackThrows THEN <<"onAckError">> ELSE <<>>)
              ELSE <<>>)
             \o (IF parses THEN <<"parse", "onMessageAccepted", "handleDingtalkMessage">>
                 ELSE <<"parse", "onParseError">>))

InboundSteps(id, ackThrows, dup, parses) ==
    (IF id # NoId
     THEN <<"ack">> \o (IF ackThrows THEN <<"onAckError">> ELSE <<>>) \o <<"dedup">>
     ELSE <<>>)
    \o (IF dup THEN <<"onDedupeHit">>
        ELSE IF parses THEN <<"parse", "onMessageAccepted", "handleDingtalkMessage">>
        ELSE <<"parse", "onParseError">>)

\* An intake that records the id of a frame only if its payload parses.
processDingtalkInbound_ParseFirst(id, ackThrows, parses, t) ==
    /\ Len(delivered) < MaxFrames
    /\ LET r == IF id # NoId THEN isDuplicateMessage(processedMessages, id, t)
                 ELSE [dup |-> FALSE, cache |-> processedMessages]
       IN  /\ processedMessages' = IF parses THEN r.cache ELSE processedMessages
           /\ delivered' = Append(delivered,
                  [id |-> id, at |-> t, parses |-> parses, dup |-> r.dup,
                   called |-> ~r.dup /\ parses,
                   steps |-> InboundSteps(id, ackThrows, r.dup, parses)])
    /\ now' = t

\* processDingtalkInbound for a frame with message id `id` that arrives when
\* Date.now() is t; ackThrows is whether client.socketCallBackResponse
\* throws, parses is whether the try block (parseRawMessage up to
\* onMessageAccepted) completes without throwing.  The frame is dropped when
\* it has an id and isDuplicateMessage returns true; otherwise
\* handleDingtalkMessage is called if the payload parses.  The function is
\* synchronous: the calls for one frame are made before the next frame's.
processDingtalkInbound(id, ackThrows, parses, t) ==
    /\ Len(delivered) < MaxFrames
    /\ LET r == IF id # NoId THEN isDuplicateMessage(processedMessages, id, t)
                 ELSE [dup |-> FALSE, cache |-> processedMessages]
       IN  /\ processedMessages' = r.cache
           /\ delivered' = Append(delivered,
                  [id |-> id, at |-> t, parses |-> parses, dup |-> r.dup,
                   called |-> ~r.dup /\ parses,
                   steps |-> InboundSteps(id, ackThrows, r.dup, parses)])
    /\ now' = t

\* clearDingtalkMessageDedupeCache.
clearDingtalkMessageDedupeCache ==
    /\ Len(delivered) < MaxFrames
    /\ processedMessages' = <<>>
    /\ delivered' = Append(delivered,
           [id |-> "clear", at |-> now, parses |-> FALSE, dup |-> FALSE, called |-> FALSE,
            steps |-> <<>>])
    /\ UNCHANGED now

(***************************************************************************)
(* Reconnect backoff                                                       *)
(***************************************************************************)

RECONNECT_BASE_DELAY_MS == 1000
RECONNECT_MAX_DELAY_MS == 60000
\* RECONNECT_JITTER_RATIO = 0.2, in thousandths
RECONNECT_JITTER_RATIO == 200

\* Largest attempt number tried; the smallest is -2.
MaxAttempt == 12
Attempts == (0 - 2)..MaxAttempt

\* Values of randomValue tried, in thousandths (-0.5 ... 1.5).
RandomSamples == {0 - 500, 0, 1, 250, 499, 500, 501, 750, 999, 1000, 1500}

Max(a, b) == IF a >= b THEN a ELSE b
Min(a, b) == IF a <= b THEN a ELSE b

RECURSIVE Pow2(_)
Pow2(n) == IF n <= 0 THEN 1 ELSE 2 * Pow2(n - 1)

\* Math.round of the rational n/d with d > 0: the nearest integer, a half
\* rounds up.
Round(n, d) == (2 * n + d) \div (2 * d)

\* Mutant of resolveReconnectDelayMs: the floor Math.max(base, ...) is missing.
resolveReconnectDelayMs_NoFloor(a, rv) ==
    LET safeAttempt == Max(1, a)
        expoBase == RECONNECT_BASE_DELAY_MS * Pow2(safeAttempt - 1)
        boundedBase == Min(RECONNECT_MAX_DELAY_MS, expoBase)
        normalizedRandom == Min(1000, Max(0, rv))
        jitter == (normalizedRandom * 2 - 1000) * RECONNECT_JITTER_RATIO
    IN  Round((boundedBase \div 1000) * (1000000 + jitter), 1000)

\* resolveReconnectDelayMs(attempt, randomValue), randomValue in thousandths.
\* jitter is in millionths, so the product is
\* boundedBase * (1000000 + jitter) / 1000000; boundedBase is a multiple of
\* 1000 and the fraction is reduced by 1000 before it is rounded.
resolveReconnectDelayMs(a, rv) ==
    LET safeAttempt == Max(1, a)
        expoBase == RECONNECT_BASE_DELAY_MS * Pow2(safeAttempt - 1)
        boundedBase == Min(RECONNECT_MAX_DELAY_MS, expoBase)
        normalizedRandom == Min(1000, Max(0, rv))
        jitter == (normalizedRandom * 2 - 1000) * RECONNECT_JITTER_RATIO
    IN  Max(RECONNECT_BASE_DELAY_MS,
            Round((boundedBase \div 1000) * (1000000 + jitter), 1000))

InitBackoff ==
    /\ attempt = 1
    /\ randomValue = 500
    /\ delayMs = -1

\* A call of resolveReconnectDelayMs.
ResolveDelay ==
    /\ delayMs = -1
    /\ delayMs' = resolveReconnectDelayMs(attempt, randomValue)
    /\ UNCHANGED <<attempt, randomValue>>

(***************************************************************************)
(* WeCom webhook codec: WXBizJsonMsgCrypt.encrypt / decrypt                *)
(*                                                                         *)
(* Strings are sequences of Unicode code points, buffers are sequences of  *)
(* bytes.  UTF-8, the big-endian length field, PKCS#7, CBC chaining with   *)
(* XOR and base64 are computed as the code and its libraries compute them. *)
(* The AES-256 block transformation itself is replaced by a keyed          *)
(* bijection on 16-byte blocks (BlockEncrypt / BlockDecrypt).              *)
(***************************************************************************)

\* Longest plaintext tried, in characters.
MaxTextLen == 3

\* 'a', e-acute, a CJK character, an emoji: 1, 2, 3 and 4 bytes in UTF-8.
Alphabet == {97, 233, 20225, 128512}

RECURSIVE Strings(_)
\* The strings of at most n characters over Alphabet.
Strings(n) ==
    IF n = 0 THEN {<<>>}
    ELSE Strings(n - 1) \cup {Append(w, ch) : w \in {v \in Strings(n - 1) : Len(v) = n - 1},
                                             ch \in Alphabet}

\* Receive ids tried: none, and the 9 characters "ww1234567".
ReceiverIds == {<<>>, <<119, 119, 49, 50, 51, 52, 53, 54, 55>>}

\* Keys and random prefixes tried.
Keys == {[i \in 1..32 |-> (7 * i + 3) % 256], [i \in 1..32 |-> (i * i + 201) % 256]}
RandomPrefixes == {[i \in 1..16 |-> 0], [i \in 1..16 |-> 256 - i]}

\* UTF-8 of one code point.
Utf8Bytes(cp) ==
    IF cp < 128 THEN <<cp>>
    ELSE IF cp < 2048 THEN <<192 + (cp \div 64), 128 + (cp % 64)>>
    ELSE IF cp < 65536
    THEN <<224 + (cp \div 4096), 128 + ((cp \div 64) % 64), 128 + (cp % 64)>>
    ELSE <<240 + (cp \div 262144), 128 + ((cp \div 4096) % 64),
           128 + ((cp \div 64) % 64), 128 + (cp % 64)>>

RECURSIVE Utf8Encode(_)
\* Buffer.from(str, "utf-8").
Utf8Encode(str) ==
    IF str = <<>> THEN <<>> ELSE Utf8Bytes(Head(str)) \o Utf8Encode(Tail(str))

\* Number of bytes of the UTF-8 sequence that starts with lead byte b.
Utf8SeqLen(b) == IF b < 128 THEN 1 ELSE IF b < 224 THEN 2 ELSE IF b < 240 THEN 3 ELSE 4

RECURSIVE Utf8Decode(_)
\* buf.toString("utf-8"); a truncated or misplaced byte decodes to U+FFFD.
Utf8Decode(buf) ==
    IF buf = <<>> THEN <<>>
    ELSE LET b == buf[1]
             n == Utf8SeqLen(b)
         IN  IF (b >= 128 /\ b < 192) \/ n > Len(buf)
             THEN <<65533>> \o Utf8Decode(Tail(buf))
             ELSE <<CASE n = 1 -> b
                      [] n = 2 -> (b - 192) * 64 + (buf[2] - 128)
                      [] n = 3 -> (b - 224) * 4096 + (buf[2] - 128) * 64 + (buf[3] - 128)
                      [] OTHER -> (b - 240) * 262144 + (buf[2] - 128) * 4096
                                  + (buf[3] - 128) * 64 + (buf[4] - 128)>>
                  \o Utf8Decode(SubSeq(buf, n + 1, Len(buf)))

\* buf.writeUInt32BE(n, 0) on a 4-byte buffer, and buf.readUInt32BE(offset).
UInt32BE(n) == <<(n \div 16777216) % 256, (n \div 65536) % 256, (n \div 256) % 256, n % 256>>
ReadUInt32BE(buf, offset) ==
    buf[offset + 1] * 16777216 + buf[offset + 2] * 65536 + buf[offset + 3] * 256
    + buf[offset + 4]

\* buf.subarray(from, to): zero-based, end exclusive, clamped to the buffer.
Subarray(buf, from, to) == SubSeq(buf, Min(from, Len(buf)) + 1, Min(to, Len(buf)))

RECURSIVE Xor(_, _)
\* Bitwise exclusive or of two bytes.
Xor(a, b) == IF a = 0 /\ b = 0 THEN 0 ELSE ((a + b) % 2) + 2 * Xor(a \div 2, b \div 2)

XorBlock(x, y) == [i \in 1..16 |-> Xor(x[i], y[i])]

\* The block transformation under key k and its inverse: a keyed bijection
\* on 16-byte blocks (bytes are rotated by one place and shifted by the key).
BlockEncrypt(k, x) == [i \in 1..16 |-> (x[(i % 16) + 1] + k[i] + k[i + 16]) % 256]
BlockDecrypt(k, y) ==
    [i \in 1..16 |-> LET j == IF i = 1 THEN 16 ELSE i - 1
                     IN  (y[j] + 512 - k[j] - k[j + 16]) % 256]

RECURSIVE CbcEncrypt(_, _, _)
\* cipher.update(data) + cipher.final() of aes-256-cbc without auto padding;
\* prev is the IV, then the previous ciphertext block.
CbcEncrypt(k, prev, data) ==
    IF Len(data) < 16 THEN <<>>
    ELSE LET c == BlockEncrypt(k, XorBlock(SubSeq(data, 1, 16), prev))
         IN  c \o CbcEncrypt(k, c, SubSeq(data, 17, Len(data)))

RECURSIVE CbcDecrypt(_, _, _)
CbcDecrypt(k, prev, data) ==
    IF Len(data) < 16 THEN <<>>
    ELSE LET c == SubSeq(data, 1, 16)
         IN  XorBlock(BlockDecrypt(k, c), prev) \o CbcDecrypt(k, c, SubSeq(data, 17, Len(data)))

RECURSIVE Base64Encode(_)
\* buf.toString("base64"): the digits 0..63 of the alphabet, 64 is "=".
Base64Encode(buf) ==
    IF Len(buf) = 0 THEN <<>>
    ELSE IF Len(buf) = 1
    THEN <<buf[1] \div 4, (buf[1] % 4) * 16, 64, 64>>
    ELSE IF Len(buf) = 2
    THEN <<buf[1] \div 4, (buf[1] % 4) * 16 + (buf[2] \div 16), (buf[2] % 16) * 4, 64>>
    ELSE <<buf[1] \div 4, (buf[1] % 4) * 16 + (buf[2] \div 16),
           (buf[2] % 16) * 4 + (buf[3] \div 64), buf[3] % 64>>
         \o Base64Encode(SubSeq(buf, 4, Len(buf)))

RECURSIVE Base64Decode(_)
\* Buffer.from(str, "base64").
Base64Decode(str) ==
    IF Len(str) < 4 THEN <<>>
    ELSE (IF str[3] = 64 THEN <<str[1] * 4 + (str[2] \div 16)>>
          ELSE IF str[4] = 64
          THEN <<str[1] * 4 + (str[2] \div 16), (str[2] % 16) * 16 + (str[3] \div 4)>>
          ELSE <<str[1] * 4 + (str[2] \div 16), (str[2] % 16) * 16 + (str[3] \div 4),
                 (str[3] % 4) * 64 + str[4]>>)
         \o Base64Decode(SubSeq(str, 5, Len(str)))

\* The padded envelope encrypt builds for a content buffer whose length field
\* says len.
Envelope(len, content) ==
    LET plain == random \o UInt32BE(len) \o content \o Utf8Encode(receiverId)
        padLen == 32 - (Len(plain) % 32)
    IN  plain \o [i \in 1..padLen |-> padLen]

\* Mutant of WXBizJsonMsgCrypt.encrypt: the length field holds the number of
\* characters of the text instead of the number of bytes of its encoding.
encrypt_CharCount(str) ==
    Base64Encode(CbcEncrypt(aesKey, SubSeq(aesKey, 1, 16),
                            Envelope(Len(str), Utf8Encode(str))))

\* WXBizJsonMsgCrypt.encrypt.
encrypt(str) ==
    Base64Encode(CbcEncrypt(aesKey, SubSeq(aesKey, 1, 16),
                            Envelope(Len(Utf8Encode(str)), Utf8Encode(str))))

\* A decrypt that returns the content without comparing the receiverId.
decrypt_Unchecked(str) ==
    LET raw == CbcDecrypt(aesKey, SubSeq(aesKey, 1, 16), Base64Decode(str))
        pad == raw[Len(raw)]
        buf == IF pad > 0 /\ pad <= 32 THEN SubSeq(raw, 1, Len(raw) - pad) ELSE raw
    IN  IF Len(raw) = 0 \/ Len(buf) < 20
        THEN <<"error">>
        ELSE <<"ok", Utf8Decode(Subarray(buf, 20, 20 + ReadUInt32BE(buf, 16)))>>

\* WXBizJsonMsgCrypt.decrypt: <<"ok", content>>, or <<"error">> when it throws.
decrypt(str) ==
    LET raw == CbcDecrypt(aesKey, SubSeq(aesKey, 1, 16), Base64Decode(str))
        pad == raw[Len(raw)]
        buf == IF pad > 0 /\ pad <= 32 THEN SubSeq(raw, 1, Len(raw) - pad) ELSE raw
    IN  IF Len(raw) = 0 \/ Len(buf) < 20
        THEN <<"error">>
        ELSE LET contentLen == ReadUInt32BE(buf, 16)
                 content == Utf8Decode(Subarray(buf, 20, 20 + contentLen))
                 fromReceiverId == Utf8Decode(Subarray(buf, 20 + contentLen, Len(buf)))
             IN  IF receiverId # <<>> /\ fromReceiverId # receiverId
                 THEN <<"error">>
                 ELSE <<"ok", content>>

InitCodec ==
    /\ aesKey = [i \in 1..32 |-> 0]
    /\ receiverId = <<>>
    /\ text = <<>>
    /\ random = [i \in 1..16 |-> 0]
    /\ encrypted = <<>>
    /\ decrypted = <<>>

\* A call of encrypt on the configured object.
Encrypt ==
    /\ encrypted = <<>>
    /\ encrypted' = encrypt(text)
    /\ UNCHANGED <<aesKey, receiverId, text, random, decrypted>>

\* A call of decrypt, on the same object, with what encrypt returned.
Decrypt ==
    /\ encrypted # <<>>
    /\ decrypted = <<>>
    /\ decrypted' = decrypt(encrypted)
    /\ UNCHANGED <<aesKey, receiverId, text, random, encrypted>>

(***************************************************************************)
(* WXBizJsonMsgCrypt.getSignature (wecom crypto.ts:74-79)                  *)
(*                                                                         *)
(* Strings are sequences of code units.  The SHA-1 digest is a function of *)
(* the bytes fed to it that is taken to be free of collisions: the digest  *)
(* of a byte sequence is that sequence under the tag "sha1".               *)
(***************************************************************************)

\* The strings the four values are drawn from: "b", "ab", "ba", "aba".
SigValues == {<<98>>, <<97, 98>>, <<98, 97>>, <<97, 98, 97>>}
SigFields == {"token", "timestamp", "nonce", "encrypt"}

\* a < b in the order Array.prototype.sort uses without a comparator: by
\* code units, a proper prefix first.
RECURSIVE StrLess(_, _)
StrLess(a, b) ==
    IF b = <<>> THEN FALSE
    ELSE IF a = <<>> THEN TRUE
    ELSE IF Head(a) # Head(b) THEN Head(a) < Head(b)
    ELSE StrLess(Tail(a), Tail(b))

\* x put into the sorted array, after the elements that are not greater.
SortInsert(sorted, x) ==
    LET k == Cardinality({i \in 1..Len(sorted) : ~StrLess(x, sorted[i])})
    IN SubSeq(sorted, 1, k) \o <<x>> \o SubSeq(sorted, k + 1, Len(sorted))

\* arr.sort()
RECURSIVE ArraySort(_)
ArraySort(arr) ==
    IF arr = <<>> THEN <<>>
    ELSE SortInsert(ArraySort(SubSeq(arr, 1, Len(arr) - 1)), arr[Len(arr)])

\* arr.join("")
RECURSIVE ArrayJoin(_)
ArrayJoin(arr) == IF arr = <<>> THEN <<>> ELSE Head(arr) \o ArrayJoin(Tail(arr))

\* crypto.createHash("sha1").update(data).digest("hex")
Sha1Hex(data) == <<"sha1", Utf8Encode(data)>>

getSignature_Unsorted(tk, ts, nc, en) == Sha1Hex(ArrayJoin(<<tk, ts, nc, en>>))

\* getSignature(timestamp, nonce, encrypt) of an object whose token is tk
getSignature(tk, ts, nc, en) == Sha1Hex(ArrayJoin(ArraySort(<<tk, ts, nc, en>>)))

SignatureOf(v) == getSignature(v.token, v.timestamp, v.nonce, v.encrypt)

InitSignature ==
    /\ supplied = [f \in SigFields |-> <<>>]
    /\ signature = <<>>
    /\ resupplied = [f \in SigFields |-> <<>>]
    /\ signature2 = <<>>

\* The first call.
ComputeSignature ==
    /\ signature = <<>>
    /\ signature' = SignatureOf(supplied)
    /\ UNCHANGED <<supplied, resupplied, signature2>>

\* A second call, the same four values supplied in another order: field f
\* gets the value field p[f] had.
Resupply(p) ==
    /\ signature # <<>>
    /\ signature2 = <<>>
    /\ resupplied' = [f \in SigFields |-> supplied[p[f]]]
    /\ signature2' = SignatureOf(resupplied')
    /\ UNCHANGED <<supplied, signature>>

\* A second call, field f replaced by the string v, the others as they were.
ReplaceOne(f, v) ==
    /\ signature # <<>>
    /\ signature2 = <<>>
    /\ v # supplied[f]
    /\ resupplied' = [supplied EXCEPT ![f] = v]
    /\ signature2' = SignatureOf(resupplied')
    /\ UNCHANGED <<supplied, signature>>

(***************************************************************************)
(* wecom-app text helpers (wecom-app monitor.ts:84-123, 380-384)           *)
(***************************************************************************)

\* truncateUtf8Bytes(text, maxBytes)
truncateUtf8Bytes(str, limit) ==
    LET buf == Utf8Encode(str)
    IN IF Len(buf) <= limit THEN str
       ELSE Utf8Decode(Subarray(buf, Len(buf) - limit, Len(buf)))

\* The loop of splitMessageByBytes over the characters of rest; byBytes: a
\* character counts with its UTF-8 length (Buffer.byteLength).
RECURSIVE SplitLoop(_, _, _, _, _, _)
SplitLoop(rest, limit, current, currentBytes, result, byBytes) ==
    IF rest = <<>>
    THEN IF Len(current) > 0 THEN Append(result, current) ELSE result
    ELSE LET char == Head(rest)
             charBytes == IF byBytes THEN Len(Utf8Bytes(char)) ELSE 1
         IN IF currentBytes + charBytes > limit /\ Len(current) > 0
            THEN SplitLoop(Tail(rest), limit, <<char>>, charBytes,
                           Append(result, current), byBytes)
            ELSE SplitLoop(Tail(rest), limit, Append(current, char),
                           currentBytes + charBytes, result, byBytes)

splitMessageByBytes_CharCount(str, limit) == SplitLoop(str, limit, <<>>, 0, <<>>, FALSE)

\* splitMessageByBytes(text, maxBytes)
splitMessageByBytes(str, limit) == SplitLoop(str, limit, <<>>, 0, <<>>, TRUE)

\* Largest maxBytes tried.
MaxBytes == 6

InitText ==
    /\ inputText = <<>>
    /\ maxBytes = 1
    /\ returned = <<>>

\* A call of truncateUtf8Bytes(inputText, maxBytes).
Truncate ==
    /\ returned' = truncateUtf8Bytes(inputText, maxBytes)
    /\ UNCHANGED <<inputText, maxBytes>>

\* A call of splitMessageByBytes(inputText, maxBytes).
Split ==
    /\ returned' = splitMessageByBytes(inputText, maxBytes)
    /\ UNCHANGED <<inputText, maxBytes>>

IsSpace(cp) == cp \in {9, 10, 13, 32}

\* str.trim()
RECURSIVE TrimStart(_)
TrimStart(str) ==
    IF str # <<>> /\ IsSpace(Head(str)) THEN TrimStart(Tail(str)) ELSE str

RECURSIVE TrimEnd(_)
TrimEnd(str) ==
    IF str # <<>> /\ IsSpace(str[Len(str)]) THEN TrimEnd(SubSeq(str, 1, Len(str) - 1))
    ELSE str

Trim(str) == TrimEnd(TrimStart(str))

STREAM_MAX_BYTES == 512000

\* appendStreamContent(state, nextText): the new state.content
appendStreamContent(content, nextText) ==
    truncateUtf8Bytes(IF content # <<>> THEN Trim(content \o <<10, 10>> \o nextText)
                      ELSE Trim(nextText),
                      STREAM_MAX_BYTES)

(***************************************************************************)
(* wecom-app webhook (wecom-app monitor.ts)                                *)
(*                                                                         *)
(* One webhook path.  An encrypted payload is the record of what its       *)
(* ciphertext determines: the key and receive id it was encrypted with and *)
(* the message inside.  A request signature is the token it was computed   *)
(* with.  The functions of ./crypto.js are not part of the sources at      *)
(* hand; they are modelled from the protocol description: the signature    *)
(* verifies for the token it was computed with, and decryption succeeds    *)
(* for the key and the receive id the payload was encrypted with.          *)
(***************************************************************************)

\* Number of HTTP requests a behaviour makes, and of targets it registers.
MaxRequests == 2
MaxTargets == 3

Requests == 1..MaxRequests
StreamIds == 1..MaxRequests

STREAM_TTL_MS == 600000

NoToken == ""
NoKey == ""
NoAgent == 0
NoMsgId == ""

\* resolveWecomAppAccount (config.ts:214): configured = Boolean(token && encodingAESKey)
Account(id, tk, key, rid, agent, active) ==
    [accountId |-> id, token |-> tk, encodingAESKey |-> key, receiveId |-> rid,
     agentId |-> agent, canSendActive |-> active,
     configured |-> (tk # NoToken /\ key # NoKey)]

\* verifyWecomAppSignature(token, timestamp, nonce, encrypt, signature)
verifyWecomAppSignature(tk, signer) == signer = tk

\* decryptWecomAppEncrypted(encodingAESKey, receiveId, encrypt) does not throw
decryptWecomAppEncrypted(key, rid, payload) ==
    payload.key = key /\ payload.receiveId = rid

\* resolveInboundAgentId(parseWecomAppPlainMessage(plaintext))
resolveInboundAgentId(msg) == msg.agentId

\* targets.filter(candidate => candidate.account.token && verify(...)), as the
\* sequence of the indices of the targets that remain
FilterIdx(idx, targets, Keep(_)) ==
    LET Test(i) == Keep(targets[i]) IN SelectSeq(idx, Test)

AllIdx(targets) == [i \in 1..Len(targets) |-> i]

signatureMatched_Any(targets, signer) == AllIdx(targets)

signatureMatched(targets, signer) ==
    LET Keep(t) == t.token # NoToken /\ verifyWecomAppSignature(t.token, signer)
    IN FilterIdx(AllIdx(targets), targets, Keep)

decryptable(targets, matched) ==
    LET Keep(t) == t.encodingAESKey # NoKey
    IN FilterIdx(matched, targets, Keep)

\* decryptWecomAppCandidates: the candidates whose decryption did not throw
decryptWecomAppCandidates_AnyReceiver(targets, candidates, payload) ==
    LET Keep(t) == t.encodingAESKey # NoKey /\ payload.key = t.encodingAESKey
    IN FilterIdx(candidates, targets, Keep)

decryptWecomAppCandidates(targets, candidates, payload) ==
    LET Keep(t) == /\ t.encodingAESKey # NoKey
                   /\ decryptWecomAppEncrypted(t.encodingAESKey, t.receiveId, payload)
    IN FilterIdx(candidates, targets, Keep)

\* The calls of decryptWecomAppEncrypted that decryptWecomAppCandidates makes.
DecryptAttempts(r, targets, candidates) ==
    {<<r, targets[candidates[i]].accountId>> :
        i \in {j \in 1..Len(candidates) : targets[candidates[j]].encodingAESKey # NoKey}}

selectDecryptedTarget_First(targets, candidates, payload) == candidates[1]

\* selectDecryptedTarget: the index of the target selected
selectDecryptedTarget(targets, candidates, payload) ==
    LET inboundAgentId == resolveInboundAgentId(payload.msg)
        Keep(t) == inboundAgentId # NoAgent /\ t.agentId = inboundAgentId
        matchedByAgentId == FilterIdx(candidates, targets, Keep)
    IN IF Len(candidates) = 1 THEN candidates[1]
       ELSE IF Len(matchedByAgentId) = 1 THEN matchedByAgentId[1]
       ELSE candidates[1]

NoMsg == [msgtype |-> "", msgid |-> NoMsgId, agentId |-> NoAgent, streamId |-> 0]
NoPayload == [key |-> NoKey, receiveId |-> "", msg |-> NoMsg]
NoReply == [kind |-> "none", id |-> 0, finish |-> FALSE, content |-> <<>>, account |-> 0]
NewRequest ==
    [pc |-> "new", method |-> "", signer |-> NoToken, targets |-> <<>>,
     payload |-> NoPayload, selected |-> 0, handled |-> FALSE, status |-> 0,
     reply |-> NoReply]

InitWebhook ==
    /\ webhookTargets = <<>>
    /\ streams = <<>>
    /\ msgidToStreamId = [m \in {} |-> 0]
    /\ wnow = 0
    /\ events = 0
    /\ rq = [r \in Requests |-> NewRequest]
    /\ sinkCalls = {}
    /\ decryptCalls = {}
    /\ dispatches = <<>>

\* registerWecomAppWebhookTarget(target)
registerWecomAppWebhookTarget(account) ==
    /\ webhookTargets' = Append(webhookTargets, account)
    /\ UNCHANGED <<streams, msgidToStreamId, core, wnow, events, rq, sinkCalls,
                   decryptCalls, dispatches>>

\* The function registerWecomAppWebhookTarget returned for the i-th target.
Unregister(i) ==
    /\ i \in 1..Len(webhookTargets)
    /\ webhookTargets' = [j \in 1..(Len(webhookTargets) - 1) |->
                             IF j < i THEN webhookTargets[j] ELSE webhookTargets[j + 1]]
    /\ UNCHANGED <<streams, msgidToStreamId, core, wnow, events, rq, sinkCalls,
                   decryptCalls, dispatches>>

HasStream(ss, id) == \E k \in 1..Len(ss) : ss[k].streamId = id
StreamOf(ss, id) == ss[CHOOSE k \in 1..Len(ss) : ss[k].streamId = id]

\* Pruning that spares the streams that have not finished.
PrunedStreams_FinishedOnly(ss, t) ==
    LET Kept(st) == ~st.finished \/ ~(st.updatedAt < t - STREAM_TTL_MS)
    IN SelectSeq(ss, Kept)

\* pruneStreams(): the two maps afterwards, at clock t
PrunedStreams(ss, t) ==
    LET Fresh(st) == ~(st.updatedAt < t - STREAM_TTL_MS) IN SelectSeq(ss, Fresh)

\* An index that forgets every msgid whenever streams are pruned.
PrunedIndex_Forgetful(ss, index, t) == [m \in {} |-> 0]

PrunedIndex(ss, index, t) ==
    LET kept == {m \in DOMAIN index : HasStream(PrunedStreams(ss, t), index[m])}
    IN [m \in kept |-> index[m]]

pruneStreams ==
    /\ streams' = PrunedStreams(streams, wnow)
    /\ msgidToStreamId' = PrunedIndex(streams, msgidToStreamId, wnow)

\* What the handler decides from the signature and the encrypted value:
\* the status, the candidates it tried to decrypt with, the target selected.
Route(targets, signer, payload, undecryptableStatus) ==
    LET sm == signatureMatched(targets, signer)
        da == decryptable(targets, sm)
        dc == decryptWecomAppCandidates(targets, da, payload)
    IN IF Len(sm) = 0 THEN [status |-> 401, tried |-> <<>>, selected |-> 0]
       ELSE IF Len(da) = 0
       THEN [status |-> undecryptableStatus, tried |-> <<>>, selected |-> 0]
       ELSE IF Len(dc) = 0 THEN [status |-> 400, tried |-> da, selected |-> 0]
       ELSE [status |-> 200, tried |-> da,
             selected |-> selectDecryptedTarget(targets, dc, payload)]

\* The handler of request r returns after res.end.
Respond(r, req, st, body) ==
    rq' = [rq EXCEPT ![r] = [req EXCEPT !.pc = "done", !.handled = TRUE,
                                        !.status = st, !.reply = body]]

\* handleWecomAppWebhookRequest, a request whose method is neither GET nor
\* POST, or whose path has no target (the handler returns false).
HandleOther(r, method) ==
    /\ rq[r].pc = "new"
    /\ pruneStreams
    /\ IF webhookTargets = <<>>
       THEN rq' = [rq EXCEPT ![r].pc = "done", ![r].method = method]
       ELSE /\ method \notin {"GET", "POST"}
            /\ Respond(r, [rq[r] EXCEPT !.method = method], 405, NoReply)
    /\ UNCHANGED <<webhookTargets, core, wnow, events, sinkCalls, decryptCalls,
                   dispatches>>

\* handleWecomAppWebhookRequest, GET (URL verification): lines 430-477
HandleGet(r, hasParams, signer, echostr) ==
    /\ rq[r].pc = "new"
    /\ webhookTargets # <<>>
    /\ pruneStreams
    /\ LET route == Route(webhookTargets, signer, echostr, 401)
           req == [rq[r] EXCEPT !.method = "GET", !.signer = signer,
                                !.targets = webhookTargets, !.payload = echostr]
       IN IF ~hasParams
          THEN /\ Respond(r, [rq[r] EXCEPT !.method = "GET"], 400, NoReply)
               /\ UNCHANGED decryptCalls
          ELSE /\ decryptCalls' = decryptCalls \cup DecryptAttempts(r, webhookTargets, route.tried)
               /\ IF route.status # 200
                  THEN Respond(r, req, route.status, NoReply)
                  ELSE Respond(r, [req EXCEPT !.selected = route.selected], 200,
                               [NoReply EXCEPT !.kind = "plaintext",
                                               !.account = route.selected])
    /\ UNCHANGED <<webhookTargets, core, wnow, events, sinkCalls, dispatches>>

\* handleWecomAppWebhookRequest, POST up to `await readRawBody`: lines 479-492
HandlePost(r, hasParams, signer) ==
    /\ rq[r].pc = "new"
    /\ webhookTargets # <<>>
    /\ pruneStreams
    /\ LET req == [rq[r] EXCEPT !.method = "POST", !.signer = signer,
                                !.targets = webhookTargets]
       IN IF ~hasParams
          THEN Respond(r, req, 400, NoReply)
          ELSE rq' = [rq EXCEPT ![r] = [req EXCEPT !.pc = "body"]]
    /\ UNCHANGED <<webhookTargets, core, wnow, events, sinkCalls, decryptCalls,
                   dispatches>>

\* A placeholder that says the stream is finished.
buildStreamPlaceholderReply_Finished(streamId, target) ==
    [kind |-> "stream", id |-> streamId, finish |-> TRUE,
     content |-> <<31245, 31561, 126>>, account |-> target]

\* buildStreamPlaceholderReply(streamId), encrypted for the target
buildStreamPlaceholderReply(streamId, target) ==
    [kind |-> "stream", id |-> streamId, finish |-> FALSE,
     content |-> <<31245, 31561, 126>>, account |-> target]

\* A reply that names the stream and carries the placeholder instead of the
\* state.
buildStreamReplyFromState_Placeholder(state, target) ==
    [kind |-> "stream", id |-> state.streamId, finish |-> FALSE,
     content |-> <<31245, 31561, 126>>, account |-> target]

\* buildStreamReplyFromState(state), encrypted for the target
buildStreamReplyFromState(state, target) ==
    [kind |-> "stream", id |-> state.streamId, finish |-> state.finished,
     content |-> truncateUtf8Bytes(state.content, STREAM_MAX_BYTES), account |-> target]

NewStream(id, msgid, t, hasCore) ==
    [streamId |-> id, msgid |-> msgid, createdAt |-> t, updatedAt |-> t,
     started |-> hasCore, finished |-> ~hasCore, error |-> FALSE, content |-> <<>>]

\* The text `Error: ${current.error}`
ErrorText == <<69, 114, 114, 111, 114, 58, 32, 101>>

\* handleWecomAppWebhookRequest after `await readRawBody`, lines 493-811: what
\* request r (which captured req), given the body read, answers and does to
\* the maps ss and index at clock t.
PostOutcome(r, req, body, ss, index, t) ==
    LET targets == req.targets
        signer == IF body.format = "xml" /\ body.xmlSigner # "absent"
                  THEN body.xmlSigner ELSE req.signer
        payload == body.payload
        route == Route(targets, signer, payload, 500)
        sel == route.selected
        msg == payload.msg
        Fail(st, tried) ==
            [status |-> st, reply |-> NoReply, selected |-> 0, signer |-> signer,
             tried |-> tried, sink |-> FALSE, streams |-> ss, index |-> index,
             dispatch |-> <<>>]
        Ok(reply, ss2, index2, dispatch) ==
            [status |-> 200, reply |-> reply, selected |-> sel, signer |-> signer,
             tried |-> route.tried, sink |-> TRUE, streams |-> ss2, index |-> index2,
             dispatch |-> dispatch]
    IN IF body.read # "ok"
       THEN Fail(IF body.read = "payload too large" THEN 413 ELSE 400, <<>>)
       ELSE IF body.format = "invalid" THEN Fail(400, <<>>)
       ELSE IF payload = NoPayload THEN Fail(400, <<>>)
       ELSE IF route.status # 200 THEN Fail(route.status, route.tried)
       ELSE IF ~targets[sel].configured \/ targets[sel].token = NoToken
               \/ targets[sel].encodingAESKey = NoKey
       THEN Fail(500, route.tried)
       ELSE IF msg.msgtype = "stream"
       THEN Ok(IF msg.streamId # 0 /\ HasStream(ss, msg.streamId)
               THEN buildStreamReplyFromState(StreamOf(ss, msg.streamId), sel)
               ELSE buildStreamReplyFromState(
                        [NewStream(msg.streamId, NoMsgId, t, TRUE) EXCEPT !.finished = TRUE],
                        sel),
               ss, index, <<>>)
       ELSE IF msg.msgid # NoMsgId /\ msg.msgid \in DOMAIN index
       THEN Ok(buildStreamPlaceholderReply(index[msg.msgid], sel), ss, index, <<>>)
       ELSE IF msg.msgtype = "event"
       THEN Ok([NoReply EXCEPT !.kind = "empty", !.account = sel], ss, index, <<>>)
       ELSE Ok(buildStreamPlaceholderReply(r, sel),
               Append(ss, NewStream(r, msg.msgid, t, core)),
               IF msg.msgid = NoMsgId THEN index
               ELSE [m \in DOMAIN index \cup {msg.msgid} |->
                        IF m = msg.msgid THEN r ELSE index[m]],
               IF core
               THEN <<[streamId |-> r, msgid |-> msg.msgid, target |-> sel,
                       account |-> targets[sel], state |-> "running"]>>
               ELSE <<>>)

\* readRawBody settles and the handler of request r runs to its end.  The id
\* createStreamId() draws is new: it is the number of the request.
BodyRead(r, body) ==
    /\ rq[r].pc = "body"
    /\ LET o == PostOutcome(r, rq[r], body, streams, msgidToStreamId, wnow)
       IN /\ Respond(r, [rq[r] EXCEPT !.signer = o.signer, !.payload = body.payload,
                                      !.selected = o.selected],
                     o.status, o.reply)
          /\ decryptCalls' = decryptCalls \cup DecryptAttempts(r, rq[r].targets, o.tried)
          /\ sinkCalls' = IF o.sink
                          THEN sinkCalls \cup
                                 {[target |-> o.selected,
                                   account |-> rq[r].targets[o.selected].accountId,
                                   kind |-> "lastInboundAt", request |-> r]}
                          ELSE sinkCalls
          /\ streams' = o.streams
          /\ msgidToStreamId' = o.index
          /\ dispatches' = dispatches \o o.dispatch
    /\ UNCHANGED <<webhookTargets, core, wnow, events>>

SetStream(ss, id, st) == [k \in 1..Len(ss) |-> IF ss[k].streamId = id THEN st ELSE ss[k]]

\* Number of dispatcher callbacks, settled dispatches and clock advances a
\* behaviour makes.
MaxEvents == 2

Event == events < MaxEvents /\ events' = events + 1

\* A chunk callback that creates the stream anew when it is gone.
onChunk_Recreates(k, chunk) ==
    /\ k \in 1..Len(dispatches)
    /\ dispatches[k].state = "running"
    /\ Event
    /\ LET id == dispatches[k].streamId
       IN  streams' =
              IF ~HasStream(streams, id)
              THEN Append(streams, [NewStream(id, dispatches[k].msgid, wnow, TRUE)
                                       EXCEPT !.content = chunk])
              ELSE SetStream(streams, id,
                       [StreamOf(streams, id) EXCEPT
                           !.content = appendStreamContent(@, chunk), !.updatedAt = wnow])
    /\ UNCHANGED <<webhookTargets, msgidToStreamId, core, wnow, rq, sinkCalls,
                   decryptCalls, dispatches>>

\* hooks.onChunk(text) of the k-th dispatch
onChunk(k, chunk) ==
    /\ k \in 1..Len(dispatches)
    /\ dispatches[k].state = "running"
    /\ Event
    /\ LET id == dispatches[k].streamId
       IN IF ~HasStream(streams, id)
          THEN UNCHANGED <<streams, sinkCalls>>
          ELSE LET current == StreamOf(streams, id)
               IN /\ streams' = SetStream(streams, id,
                        [current EXCEPT !.content = appendStreamContent(current.content, chunk),
                                        !.updatedAt = wnow])
                  /\ sinkCalls' = sinkCalls \cup
                        {[target |-> dispatches[k].target,
                          account |-> dispatches[k].account.accountId,
                          kind |-> "lastOutboundAt", request |-> id]}
    /\ UNCHANGED <<webhookTargets, msgidToStreamId, core, wnow, rq, decryptCalls,
                   dispatches>>

\* A failure that records the error and leaves the stream unfinished.
Failed_Unfinished(ss, id, t) ==
    IF ~HasStream(ss, id) THEN ss
    ELSE SetStream(ss, id, [StreamOf(ss, id) EXCEPT !.error = TRUE, !.updatedAt = t])

\* What hooks.onError and the .catch handler do to the stream.
Failed(ss, id, t) ==
    IF ~HasStream(ss, id) THEN ss
    ELSE LET current == StreamOf(ss, id)
         IN SetStream(ss, id,
                [current EXCEPT !.error = TRUE,
                                !.content = IF current.content # <<>> THEN current.content
                                            ELSE ErrorText,
                                !.finished = TRUE,
                                !.updatedAt = t])

\* hooks.onError(err) of the k-th dispatch
onError(k) ==
    /\ k \in 1..Len(dispatches)
    /\ dispatches[k].state = "running"
    /\ Event
    /\ streams' = Failed(streams, dispatches[k].streamId, wnow)
    /\ UNCHANGED <<webhookTargets, msgidToStreamId, core, wnow, rq, sinkCalls,
                   decryptCalls, dispatches>>

\* The promise of the k-th dispatch is fulfilled: the .then handler, lines
\* 725-779.  The active push it may make (sendWecomAppMessage of the chunks
\* of the content) sends messages and changes nothing of this module.
DispatchResolved(k) ==
    /\ k \in 1..Len(dispatches)
    /\ dispatches[k].state = "running"
    /\ Event
    /\ dispatches' = [dispatches EXCEPT ![k].state = "resolved"]
    /\ LET id == dispatches[k].streamId
       IN IF ~HasStream(streams, id)
          THEN UNCHANGED streams
          ELSE streams' = SetStream(streams, id,
                   [StreamOf(streams, id) EXCEPT !.finished = TRUE, !.updatedAt = wnow])
    /\ UNCHANGED <<webhookTargets, msgidToStreamId, core, wnow, rq, sinkCalls,
                   decryptCalls>>

\* The promise of the k-th dispatch is rejected: the .catch handler, 780-789
DispatchRejected(k) ==
    /\ k \in 1..Len(dispatches)
    /\ dispatches[k].state = "running"
    /\ Event
    /\ dispatches' = [dispatches EXCEPT ![k].state = "rejected"]
    /\ streams' = Failed(streams, dispatches[k].streamId, wnow)
    /\ UNCHANGED <<webhookTargets, msgidToStreamId, core, wnow, rq, sinkCalls,
                   decryptCalls>>

\* Time passes, more than STREAM_TTL_MS at once: a stream not updated since
\* is pruned by the next request.
TickMs == STREAM_TTL_MS + 1

Tick ==
    /\ Event
    /\ wnow' = wnow + TickMs
    /\ UNCHANGED <<wmodule, rq, sinkCalls, decryptCalls, dispatches>>

(***************************************************************************)
(* DingTalk stream supervisor: one session and its watchdog                *)
(*                                                                         *)
(* runGatewaySession with its local variables.  A step is the part of the  *)
(* function between two awaits; client.connected and client.registered    *)
(* are read at every pass of the loop and may have any value.             *)
(***************************************************************************)

REGISTER_TIMEOUT_MS == 30000

\* Number of passes of the watchdog loop in a session.
MaxPasses == 9

\* null
Null == 0 - 1

\* The locals after line 243, before raceConnectAttempt: transitionState has
\* set the state to connecting.  connected and registered are what the last
\* pass read from the client.  Two fields are kept for the properties only:
\* observedFrame (the bot handler was called for a frame after a pass that
\* read connected true) and lostSince (the clock of the first of the passes
\* that have read connected false without one in between that read true).
NewSession ==
    [pc |-> "connect", now |-> 0, passes |-> 0,
     state |-> "connecting",
     hasInboundTraffic |-> FALSE, registrationWarningLogged |-> FALSE,
     sessionStartAt |-> Null, firstConnectedAt |-> Null, firstRegisteredAt |-> Null,
     disconnectedAt |-> Null,
     connected |-> FALSE, registered |-> FALSE,
     observedFrame |-> FALSE, lostSince |-> Null,
     warnings |-> 0, result |-> "none"]

\* runGatewayLoop before its first session, lines 363-366.
NewGateway == [reconnectAttempt |-> 0, reconnectCountTotal |-> 0, delayAttempt |-> 0]

InitSession == session = NewSession /\ gateway = NewGateway

\* return { kind: "reconnect", reason } / return { kind: "stopped" }
Return(s, result) == [s EXCEPT !.pc = "ended", !.result = result]

\* A registration check that gives up: past the timeout the session is to
\* end with a reconnect.
RegistrationCheck_Fatal(connected, registered, elapsed, logged) ==
    IF connected /\ ~registered /\ elapsed > REGISTER_TIMEOUT_MS
    THEN [result |-> "register_timeout", logged |-> TRUE, warn |-> ~logged]
    ELSE [result |-> "continue", logged |-> logged, warn |-> FALSE]

\* Lines 309-316: what the registration check returns from the session
\* ("continue": nothing), the flag afterwards and whether it logs the warning.
RegistrationCheck(connected, registered, elapsed, logged) ==
    IF connected /\ ~registered /\ elapsed > REGISTER_TIMEOUT_MS
    THEN [result |-> "continue", logged |-> TRUE, warn |-> ~logged]
    ELSE [result |-> "continue", logged |-> logged, warn |-> FALSE]

\* One pass of the loop body, lines 285-343, from the reading of the clock
\* to the sleep: the locals after it for what the client says.
WatchdogPass(s, connected, registered) ==
    LET t == s.now
        s1 == [s EXCEPT !.connected = connected, !.registered = registered,
                        !.passes = @ + 1,
                        !.lostSince = IF connected THEN Null
                                      ELSE IF @ = Null THEN t ELSE @]
        s2 == IF connected /\ s1.firstConnectedAt = Null
              THEN [s1 EXCEPT !.firstConnectedAt = t, !.state = "connected"]
              ELSE s1
        s3 == IF registered /\ s2.firstRegisteredAt = Null
              THEN [s2 EXCEPT !.firstRegisteredAt = t, !.state = "running"]
              ELSE s2
        outcome == WatchdogOutcome(connected, s.firstConnectedAt # Null,
                                   s.disconnectedAt # Null, t - s.sessionStartAt,
                                   t - s.disconnectedAt)
        check == RegistrationCheck(connected, registered, t - s.sessionStartAt,
                                   s.registrationWarningLogged)
        s4 == [s3 EXCEPT !.registrationWarningLogged = check.logged,
                         !.warnings = IF check.warn THEN @ + 1 ELSE @]
    IN IF outcome = "connect_timeout" THEN Return(s3, outcome)
       ELSE IF check.result # "continue" THEN Return(s4, check.result)
       ELSE IF connected /\ registered
       THEN [s4 EXCEPT !.disconnectedAt = Null, !.state = "running", !.pc = "sleep"]
       ELSE IF connected /\ s4.hasInboundTraffic
       THEN [s4 EXCEPT !.disconnectedAt = Null, !.state = "running", !.pc = "sleep"]
       ELSE IF connected
       THEN [s4 EXCEPT !.state = "connected", !.pc = "sleep"]
       ELSE IF s4.firstConnectedAt # Null
       THEN IF s4.disconnectedAt = Null
            THEN [s4 EXCEPT !.disconnectedAt = t, !.state = "reconnecting",
                            !.pc = "sleep"]
            ELSE IF outcome = "connection_lost" THEN Return(s4, outcome)
            ELSE [s4 EXCEPT !.pc = "sleep"]
       ELSE [s4 EXCEPT !.pc = "sleep"]

\* raceConnectAttempt settles, lines 263-282, and when the connect was
\* started the first pass of the loop runs.
SessionConnect(connectAttempt, connected, registered) ==
    /\ session.pc = "connect"
    /\ UNCHANGED gateway
    /\ session' =
          IF connectAttempt = "aborted" THEN Return(session, "stopped")
          ELSE IF connectAttempt = "timeout" THEN Return(session, "connect_timeout")
          ELSE IF connectAttempt = "error" THEN Return(session, "connect_error")
          ELSE WatchdogPass([session EXCEPT !.sessionStartAt = session.now],
                            connected, registered)

\* onMessageAccepted, lines 249-252, called by the bot handler for a frame
\* that is dispatched.
onMessageAccepted(s) ==
    [s EXCEPT !.hasInboundTraffic = TRUE,
              !.observedFrame = @ \/ (s.pc = "sleep" /\ s.connected)]

MessageAccepted ==
    /\ session.pc \in {"connect", "sleep"}
    /\ UNCHANGED gateway
    /\ ~session.hasInboundTraffic
    /\ session' = onMessageAccepted(session)

\* onDedupeHit and onParseError, lines 253-258, called by the bot handler for
\* a frame that is a duplicate or does not parse: they count the frame in
\* the metrics and leave the locals of the session alone.
FrameDropped ==
    /\ session.pc = "sleep"
    /\ UNCHANGED gateway
    /\ session.connected
    /\ ~session.observedFrame
    /\ session' = [session EXCEPT !.observedFrame = TRUE]

\* sleepWithAbort(WATCHDOG_INTERVAL_MS) resolves after `slept` milliseconds:
\* false after an abort (the session is stopped), true after the timer, and
\* then the next pass runs.
SessionTick(slept, keepRunning, connected, registered) ==
    /\ session.pc = "sleep"
    /\ UNCHANGED gateway
    /\ session.passes < MaxPasses
    /\ session' =
          IF ~keepRunning THEN Return([session EXCEPT !.now = @ + slept], "stopped")
          ELSE WatchdogPass([session EXCEPT !.now = @ + slept], connected, registered)

\* Number of reconnects of one runGatewayLoop call.
MaxReconnects == 2

\* A counter that starts again after a session that was registered.
reconnectAttemptAfter_Reset(reconnectAttempt, s) ==
    IF s.firstRegisteredAt # Null THEN 1 ELSE reconnectAttempt + 1

\* Line 406, `reconnectAttempt += 1`, after a session that ended as s.
reconnectAttemptAfter(reconnectAttempt, s) == reconnectAttempt + 1

\* runGatewaySession has returned and runGatewayLoop continues, lines
\* 394-423: the client is disconnected; the loop is left when the session
\* was stopped or the signal is aborted (the state becomes stopped, 426),
\* otherwise the reconnect is counted, the state becomes reconnecting, the
\* delay is computed for reconnectAttempt and the backoff sleep begins.
SessionReturned(signalAborted) ==
    /\ session.pc = "ended"
    /\ IF session.result = "stopped" \/ signalAborted
       THEN /\ session' = [session EXCEPT !.pc = "stopped", !.state = "stopped"]
            /\ UNCHANGED gateway
       ELSE /\ gateway.reconnectCountTotal < MaxReconnects
            /\ LET next == reconnectAttemptAfter(gateway.reconnectAttempt, session)
               IN gateway' = [reconnectAttempt |-> next,
                              reconnectCountTotal |-> gateway.reconnectCountTotal + 1,
                              delayAttempt |-> next]
            /\ session' = [session EXCEPT !.pc = "backoff", !.state = "reconnecting"]

\* The backoff sleepWithAbort resolves, lines 420-423 and 367-392: the loop
\* is left after an abort, otherwise the next session begins with new
\* locals (its clock is counted from its beginning) and the state connecting.
SessionBackoffDone(keepRunning) ==
    /\ session.pc = "backoff"
    /\ session' = IF keepRunning THEN NewSession
                  ELSE [session EXCEPT !.pc = "stopped", !.state = "stopped"]
    /\ UNCHANGED gateway


(***************************************************************************)
(* QQ gateway connection (extensions/qqbot/src/monitor.ts:78-306): the     *)
(* closure of one monitorQQBotProvider call that has started and is not    *)
(* stopped                                                                 *)
(***************************************************************************)

RECONNECT_DELAYS_MS == <<1000, 2000, 5000, 10000, 20000, 30000>>

\* The heartbeat interval used when hello carries none.
DEFAULT_HEARTBEAT_MS == 30000

\* The heartbeat intervals a hello may carry.
HelloIntervals == {41250}

MaxSeq == 1
MaxGwFrames == 3
MaxGwAttempt == 3

\* The sockets connect() may create, in the order of their creation.
GwSockets == {1, 2}

\* No payload has been handled.
NoGwPayload == [opc |-> Null, t |-> "", s |-> Null, d |-> Null]

\* No frame has been sent.
NoFrame == [opc |-> 0, session |-> Null, seq |-> Null, sock |-> 0]

\* The state of the closure when the executor has run: connect() has been
\* called and waits for the token.  intervals and timeouts count the timers
\* that are armed in the runtime; triggered, owed, sinceReset, lastCarried
\* and highest are the history the properties speak about; sent, waited,
\* last and token say what the last step sent, which delay its timer had
\* waited, which payload it handled and how its token request settled.
NewGw ==
    [ reconnectAttempt |-> 0,
      heartbeatTimer |-> Null,
      reconnectTimer |-> Null,
      sessionId |-> Null,
      lastSeq |-> Null,
      connecting |-> TRUE,
      cpc |-> "await",
      activeSocket |-> 0,
      readyState |-> [s \in GwSockets |-> "none"],
      created |-> 0,
      hellos |-> 0,
      dispatching |-> 0,
      intervals |-> 0,
      timeouts |-> 0,
      sent |-> NoFrame,
      frames |-> 0,
      triggered |-> [s \in GwSockets |-> FALSE],
      owed |-> 0,
      sinceReset |-> 0,
      waited |-> Null,
      lastCarried |-> Null,
      highest |-> Null,
      last |-> NoGwPayload,
      token |-> "none" ]

InitGw == gw = NewGw /\ handlers = <<>>

\* The closure before a step: what the step before sent, waited, handled
\* and was answered is forgotten.
Before(g) ==
    [g EXCEPT !.sent = NoFrame, !.waited = Null, !.last = NoGwPayload, !.token = "none"]

clearTimers(g) ==
    [g EXCEPT !.intervals = IF g.heartbeatTimer # Null THEN @ - 1 ELSE @,
              !.heartbeatTimer = Null,
              !.timeouts = IF g.reconnectTimer # Null THEN @ - 1 ELSE @,
              !.reconnectTimer = Null]

\* close() is called on the active socket only when it is OPEN; the socket
\* emits close later.
cleanupSocket(g) ==
    LET c == clearTimers(g)
    IN  [c EXCEPT !.readyState =
                      IF c.activeSocket # 0 /\ c.readyState[c.activeSocket] = "OPEN"
                      THEN [@ EXCEPT ![c.activeSocket] = "CLOSING"]
                      ELSE @,
                  !.activeSocket = 0]

scheduleReconnect(g, reason) ==
    IF g.reconnectTimer # Null
    THEN g
    ELSE [g EXCEPT !.reconnectTimer =
                       RECONNECT_DELAYS_MS[
                           Min(g.reconnectAttempt, Len(RECONNECT_DELAYS_MS) - 1) + 1],
                   !.reconnectAttempt = @ + 1,
                   !.timeouts = @ + 1]

startHeartbeat_NoClear(g, intervalMs) ==
    [g EXCEPT !.intervals = @ + 1,
              !.heartbeatTimer = intervalMs]

startHeartbeat(g, intervalMs) ==
    [g EXCEPT !.intervals = (IF g.heartbeatTimer # Null THEN @ - 1 ELSE @) + 1,
              !.heartbeatTimer = intervalMs]

\* What sendResume or sendIdentify hands to the active socket: nothing
\* unless that socket is OPEN.
sendFrame(g, frame) ==
    IF g.activeSocket # 0 /\ g.readyState[g.activeSocket] = "OPEN"
    THEN [g EXCEPT !.sent = [frame EXCEPT !.sock = g.activeSocket]]
    ELSE g

\* The gateway payloads: hello with or without an interval, heartbeat ack,
\* reconnect, invalid session, READY with or without a session id, RESUMED,
\* another event, an opcode the switch does not name.
GatewayPayloads ==
    LET Seqs == (0..MaxSeq) \cup {Null}
    IN  [opc : {10}, t : {""}, s : {Null}, d : {Null} \cup HelloIntervals]
        \cup [opc : {11, 7, 9, 3}, t : {""}, s : {Null}, d : {Null}]
        \cup [opc : {0}, t : {"READY"}, s : Seqs, d : {Null, 1}]
        \cup [opc : {0}, t : {"RESUMED", "MESSAGE"}, s : Seqs, d : {Null}]

handleGatewayPayload_Highest(g, payload) ==
    LET g1 == [g EXCEPT !.lastSeq = Max(@, payload.s)]
    IN  CASE payload.opc = 10 ->
                 [startHeartbeat(g1, IF payload.d = Null THEN DEFAULT_HEARTBEAT_MS
                                     ELSE payload.d)
                      EXCEPT !.hellos = @ + 1]
          [] payload.opc = 7 ->
                 scheduleReconnect(cleanupSocket(g1), "server requested reconnect")
          [] payload.opc = 9 ->
                 scheduleReconnect(
                     cleanupSocket([g1 EXCEPT !.sessionId = Null, !.lastSeq = Null]),
                     "invalid session")
          [] payload.opc = 0 /\ payload.t = "READY" ->
                 [g1 EXCEPT !.sessionId = IF payload.d # Null THEN payload.d ELSE @,
                            !.reconnectAttempt = 0]
          [] payload.opc = 0 /\ payload.t = "RESUMED" ->
                 [g1 EXCEPT !.reconnectAttempt = 0]
          [] payload.opc = 0 /\ payload.t \notin {"", "READY", "RESUMED"} ->
                 [g1 EXCEPT !.dispatching = @ + 1]
          [] OTHER -> g1

\* handleGatewayPayload up to its first await.
handleGatewayPayload(g, payload) ==
    LET g1 == IF payload.s # Null THEN [g EXCEPT !.lastSeq = payload.s] ELSE g
    IN  CASE payload.opc = 10 ->
                 [startHeartbeat(g1, IF payload.d = Null THEN DEFAULT_HEARTBEAT_MS
                                     ELSE payload.d)
                      EXCEPT !.hellos = @ + 1]
          [] payload.opc = 7 ->
                 scheduleReconnect(cleanupSocket(g1), "server requested reconnect")
          [] payload.opc = 9 ->
                 scheduleReconnect(
                     cleanupSocket([g1 EXCEPT !.sessionId = Null, !.lastSeq = Null]),
                     "invalid session")
          [] payload.opc = 0 /\ payload.t = "READY" ->
                 [g1 EXCEPT !.sessionId = IF payload.d # Null THEN payload.d ELSE @,
                            !.reconnectAttempt = 0]
          [] payload.opc = 0 /\ payload.t = "RESUMED" ->
                 [g1 EXCEPT !.reconnectAttempt = 0]
          [] payload.opc = 0 /\ payload.t \notin {"", "READY", "RESUMED"} ->
                 [g1 EXCEPT !.dispatching = @ + 1]
          [] OTHER -> g1

\* The history after socket s has closed or has received a reconnect or
\* invalid-session opcode: the first such event of a socket is owed one
\* connect attempt.
Triggered(g, s) ==
    IF g.triggered[s] THEN g
    ELSE [g EXCEPT !.triggered = [@ EXCEPT ![s] = TRUE], !.owed = @ + 1]

\* The history after a payload from socket s: the connect attempts owed,
\* the reconnects since READY or RESUMED, the sequence number
\* carried last and the highest one carried since the session id was
\* obtained, the payload itself.
PayloadHistory(g, g2, s, payload) ==
    [(IF payload.opc \in {7, 9} THEN Triggered(g2, s) ELSE g2)
        EXCEPT !.frames = @ + 1,
               !.sinceReset = IF payload.opc = 0 /\ payload.t \in {"READY", "RESUMED"}
                              THEN 0 ELSE @,
               !.lastCarried = IF payload.opc = 9 THEN Null
                               ELSE IF payload.s # Null THEN payload.s ELSE @,
               !.highest = IF payload.opc = 9 THEN Null
                           ELSE IF payload.opc = 0 /\ payload.t = "READY"
                                   /\ payload.d # Null /\ payload.d # g.sessionId
                                THEN g2.lastSeq
                           ELSE IF payload.s # Null THEN Max(@, payload.s) ELSE @,
               !.last = payload]

\* Socket s emits "message" with a payload that parses.
GwPayload(s, payload) ==
    /\ gw.readyState[s] \in {"OPEN", "CLOSING"}
    /\ gw.frames < MaxGwFrames
    /\ payload.opc \in {7, 9} => gw.reconnectAttempt < MaxGwAttempt
    /\ gw' = PayloadHistory(gw, handleGatewayPayload(Before(gw), payload), s, payload)

\* getAccessToken settles in a hello handler: resume or identify is handed
\* to the active socket; a rejection is logged by the catch of the message
\* listener.
GwHelloTokenSettled(ok) ==
    /\ gw.hellos > 0
    /\ LET g1 == [Before(gw) EXCEPT !.hellos = @ - 1,
                                    !.token = IF ok THEN "resolved" ELSE "rejected"]
       IN  gw' = IF ~ok THEN g1
                 ELSE IF g1.sessionId # Null /\ g1.lastSeq # Null
                      THEN sendFrame(g1, [opc |-> 6, session |-> g1.sessionId,
                                          seq |-> g1.lastSeq, sock |-> 0])
                      ELSE sendFrame(g1, [opc |-> 2, session |-> Null,
                                          seq |-> Null, sock |-> 0])

\* handleQQBotDispatch returns or throws: the rejection is logged.
GwDispatchSettled(ok) ==
    /\ gw.dispatching > 0
    /\ gw' = [Before(gw) EXCEPT !.dispatching = @ - 1]

\* The heartbeat interval elapses.
GwHeartbeat ==
    /\ gw.heartbeatTimer # Null
    /\ gw' = sendFrame(Before(gw), [opc |-> 1, session |-> Null, seq |-> gw.lastSeq, sock |-> 0])

\* connect() up to its first await.
connect(g) ==
    IF g.connecting
    THEN g
    ELSE [cleanupSocket([g EXCEPT !.connecting = TRUE]) EXCEPT !.cpc = "await"]

\* The reconnect timer fires after its delay.
GwReconnectTimerFired ==
    /\ gw.reconnectTimer # Null
    /\ LET g1 == [Before(gw) EXCEPT !.reconnectTimer = Null, !.timeouts = @ - 1]
           g2 == connect(g1)
       IN  gw' = IF g1.connecting
                 THEN g2
                 ELSE [g2 EXCEPT !.owed = @ - 1,
                                 !.sinceReset = @ + 1,
                                 !.waited = gw.reconnectTimer]

\* getAccessToken and getGatewayUrl settle in connect(): the socket is
\* created and becomes the active one, or the failure is caught.
GwConnectSettled(ok) ==
    /\ gw.cpc = "await"
    /\ IF ok
       THEN /\ gw.created + 1 \in GwSockets
            /\ gw' = [Before(gw) EXCEPT !.created = @ + 1,
                                !.readyState = [@ EXCEPT ![gw.created + 1] = "CONNECTING"],
                                !.activeSocket = gw.created + 1,
                                !.connecting = FALSE,
                                !.cpc = "idle"]
       ELSE /\ gw.reconnectAttempt < MaxGwAttempt
            /\ gw' = [scheduleReconnect(cleanupSocket(Before(gw)), "connect failed")
                          EXCEPT !.owed = @ + 1, !.connecting = FALSE, !.cpc = "idle"]

GwSocketOpen(s) ==
    /\ gw.readyState[s] = "CONNECTING"
    /\ gw' = [Before(gw) EXCEPT !.readyState = [@ EXCEPT ![s] = "OPEN"]]

\* Socket s emits "close".
GwSocketClose(s) ==
    /\ gw.readyState[s] \in {"CONNECTING", "OPEN", "CLOSING"}
    /\ gw.reconnectAttempt < MaxGwAttempt
    /\ gw' = Triggered(
                 scheduleReconnect(
                     cleanupSocket([Before(gw) EXCEPT !.readyState = [@ EXCEPT ![s] = "CLOSED"]]),
                     "socket closed"),
                 s)

\* Socket s emits "error": the listener logs it.
GwSocketError(s) ==
    /\ gw.readyState[s] \in {"CONNECTING", "OPEN", "CLOSING"}
    /\ gw' = Before(gw)

(***************************************************************************)
(* The downstream handler of the DingTalk bot (part_002:137-160): the call *)
(* is started and not awaited                                              *)
(***************************************************************************)

MaxDetachedFrames == 2
MaxDetachedPasses == 2

\* The stream client delivers a frame to the callback registered by
\* registerDingtalkBotHandler while the session runs: processDingtalkInbound
\* with the callbacks of runGatewaySession; for a frame that is dispatched
\* handleDingtalkMessage is started.
DingtalkFrame(id, ackThrows, parses) ==
    /\ Len(delivered) < MaxDetachedFrames
    /\ session.pc \in {"connect", "sleep"}
    /\ processDingtalkInbound(id, ackThrows, parses, now + 1)
    /\ LET called == delivered'[Len(delivered')].called
       IN  /\ session' = IF called THEN onMessageAccepted(session) ELSE session
           /\ handlers' = IF called THEN Append(handlers, "pending") ELSE handlers
    /\ UNCHANGED <<gateway, gw, qtoken>>

\* A handler call whose rejection reaches the session.
HandlerSettled_Escapes(i, ok) ==
    /\ i \in DOMAIN handlers
    /\ handlers[i] = "pending"
    /\ handlers' = [handlers EXCEPT ![i] = IF ok THEN "returned" ELSE "rejected"]
    /\ session' = IF ok THEN session ELSE Return(session, "session_error")
    /\ UNCHANGED <<ivars, gateway, gw, qtoken>>

\* The promise of the i-th handleDingtalkMessage call settles: a rejection
\* is logged by the catch attached to it.
HandlerSettled(i, ok) ==
    /\ i \in DOMAIN handlers
    /\ handlers[i] = "pending"
    /\ handlers' = [handlers EXCEPT ![i] = IF ok THEN "returned" ELSE "rejected"]
    /\ UNCHANGED <<ivars, gvars, gw, qtoken>>

(***************************************************************************)
(* QQ access token cache (part_003:198-263)                                *)
(***************************************************************************)

\* 5 * 60 * 1000
TOKEN_MARGIN_MS == 300000

\* expires_in ?? 7200, in seconds
DEFAULT_EXPIRES_IN == 7200

MaxTokenCalls == 3
MaxTokenSteps == 3

\* Values of expires_in in a token response, Null for a response without it.
ExpiresInSamples == {Null, 300, 600}

\* Milliseconds by which Date.now() advances between two events.
TokenDeltas == {1, 299999}

\* tokenCache = null
NoCache == [token |-> Null, expiresAt |-> Null]

\* The module when it is loaded.  inflight are the httpPost requests that
\* have not settled, started counts the requests made (request r answers
\* with token r), steps the times the clock has advanced, and calls records
\* for every getAccessToken call its time, the cache and the requests in
\* flight it met, and what it returned: the cached token, or the promise of
\* request req, which it started itself or found.
NewTk ==
    [ tokenCache |-> NoCache,
      tokenPromise |-> 0,
      clock |-> 0,
      inflight |-> {},
      started |-> 0,
      steps |-> 0,
      calls |-> <<>> ]

InitTk == qtoken = NewTk

\* A cache that is used up to its expiry.
getAccessToken_NoMargin(k, t) ==
    LET met == [at |-> t, cache |-> k.tokenCache, inflight |-> k.inflight]
    IN  IF k.tokenCache # NoCache /\ t < k.tokenCache.expiresAt
        THEN [k EXCEPT !.calls = Append(@, [met |-> met, via |-> "cache",
                                            token |-> k.tokenCache.token, req |-> 0])]
        ELSE IF k.tokenPromise # 0
        THEN [k EXCEPT !.calls = Append(@, [met |-> met, via |-> "promise",
                                            token |-> Null, req |-> k.tokenPromise])]
        ELSE [k EXCEPT !.tokenPromise = k.started + 1,
                       !.started = @ + 1,
                       !.inflight = @ \cup {k.started + 1},
                       !.calls = Append(@, [met |-> met, via |-> "promise",
                                            token |-> Null, req |-> k.started + 1])]

\* getAccessToken called when Date.now() is t, up to the await of httpPost.
getAccessToken(k, t) ==
    LET met == [at |-> t, cache |-> k.tokenCache, inflight |-> k.inflight]
    IN  IF k.tokenCache # NoCache /\ t < k.tokenCache.expiresAt - TOKEN_MARGIN_MS
        THEN [k EXCEPT !.calls = Append(@, [met |-> met, via |-> "cache",
                                            token |-> k.tokenCache.token, req |-> 0])]
        ELSE IF k.tokenPromise # 0
        THEN [k EXCEPT !.calls = Append(@, [met |-> met, via |-> "promise",
                                            token |-> Null, req |-> k.tokenPromise])]
        ELSE [k EXCEPT !.tokenPromise = k.started + 1,
                       !.started = @ + 1,
                       !.inflight = @ \cup {k.started + 1},
                       !.calls = Append(@, [met |-> met, via |-> "promise",
                                            token |-> Null, req |-> k.started + 1])]

\* A caller (connect, the hello handler, a send) calls getAccessToken.
TokenCall ==
    /\ Len(qtoken.calls) < MaxTokenCalls
    /\ qtoken' = getAccessToken(qtoken, qtoken.clock)

\* httpPost of request r settles: with a token and expires_in, with a
\* response that has no access_token, or with an error.
TokenResponse(r, outcome, expiresIn) ==
    /\ r \in qtoken.inflight
    /\ qtoken' = [qtoken EXCEPT !.inflight = @ \ {r},
                        !.tokenPromise = 0,
                        !.tokenCache =
                            IF outcome = "token"
                            THEN [token |-> r,
                                  expiresAt |-> qtoken.clock
                                      + (IF expiresIn = Null THEN DEFAULT_EXPIRES_IN
                                         ELSE expiresIn) * 1000]
                            ELSE @]

clearTokenCache ==
    /\ qtoken.tokenCache # NoCache
    /\ qtoken' = [qtoken EXCEPT !.tokenCache = NoCache]

TokenTimePasses(delta) ==
    /\ qtoken.steps < MaxTokenSteps
    /\ qtoken' = [qtoken EXCEPT !.clock = @ + delta, !.steps = @ + 1]

\* No call of the extensions' helpers has been made.
InitExtensions ==
    /\ InitSession
    /\ InitGw
    /\ InitTk
    /\ InitSignature
    /\ InitWebhook
    /\ core = TRUE
    /\ InitText

(***************************************************************************)
(* Specifications                                                          *)
(***************************************************************************)

Init ==
    /\ mode \in {"dingtalk", "qqbot"}
    /\ op = "init"
    /\ InitDingtalk
    /\ InitQQ
    /\ InitDedup
    /\ InitBackoff
    /\ InitCodec
    /\ InitExtensions

Step(A) == A /\ op' = "step" /\ UNCHANGED mode

NextDingtalk(CS) ==
    \/ \E c \in CS, a \in Accounts, cfgOk \in BOOLEAN : Step(MonitorInvoke(c, a, cfgOk))
    \/ \E c \in Calls, ok \in BOOLEAN : Step(MonitorStart(c, ok))
    \/ \E c \in Calls, o \in {"started", "timeout", "error", "session_error"},
          cn \in BOOLEAN : Step(ConnectSettled(c, o, cn))
    \/ \E c \in Calls, cn \in BOOLEAN, fc \in BOOLEAN, dc \in BOOLEAN,
          e \in ElapsedSamples, d \in GraceSamples, threw \in BOOLEAN :
          Step(WatchdogTick(c, cn, fc, dc, e, d, threw))
    \/ \E c \in Calls, ok \in BOOLEAN : Step(BackoffDone(c, ok))
    \/ \E c \in Calls : Step(AbortSignal(c))
    \/ (stopDingtalkMonitor /\ op' = "stop" /\ UNCHANGED mode)

NextQQ(QS) ==
    \/ \E m \in QS, a \in Accounts, cfgOk \in BOOLEAN, pre \in BOOLEAN :
          Step(monitorQQBotProvider(m, a, cfgOk, pre))
    \/ \E m \in QCalls, ok \in BOOLEAN : Step(TokenSettled(m, ok))
    \/ \E m \in QCalls, ok \in BOOLEAN, s \in Sockets : Step(UrlSettled(m, ok, s))
    \/ \E s \in Sockets : Step(SocketOpen(s))
    \/ \E s \in Sockets : Step(SocketClose(s))
    \/ \E s \in Sockets, opcode \in {10, 7, 9} : Step(GatewayPayload(s, opcode))
    \/ \E m \in QCalls : Step(ReconnectTimerFired(m))
    \/ \E m \in QCalls : Step(QQAbortSignal(m))
    \/ (stopQQBotMonitor /\ op' = "stop" /\ UNCHANGED mode)

Next ==
    \/ (mode = "dingtalk" /\ NextDingtalk(1..NCalls) /\ UNCHANGED <<qvars, ivars, bvars, cvars, evars>>)
    \/ (mode = "qqbot" /\ NextQQ(1..NQCalls) /\ UNCHANGED <<dvars, ivars, bvars, cvars, evars>>)

NextMore ==
    \/ (mode = "dingtalk" /\ NextDingtalk(Calls) /\ UNCHANGED <<qvars, ivars, bvars, cvars, evars>>)
    \/ (mode = "qqbot" /\ NextQQ(QCalls) /\ UNCHANGED <<dvars, ivars, bvars, cvars, evars>>)

Spec == Init /\ [][Next]_vars

SpecMore == Init /\ [][NextMore]_vars

\* What the event loop guarantees to a DingTalk loop: a resolved await is
\* resumed and a timer that is due fires (the connect timeout, the watchdog
\* interval, the backoff delay).  Calls, stops, aborts and the transport's
\* answers are not guaranteed to happen.
LoopProgress(c) ==
    /\ mode = "dingtalk"
    /\ UNCHANGED <<qvars, ivars, bvars, cvars, evars>>
    /\ \/ \E ok \in BOOLEAN : Step(MonitorStart(c, ok))
       \/ Step(ConnectSettled(c, "timeout", FALSE))
       \/ \E cn \in BOOLEAN, fc \in BOOLEAN, dc \in BOOLEAN, e \in ElapsedSamples,
             d \in GraceSamples : Step(WatchdogTick(c, cn, fc, dc, e, d, FALSE))
       \/ \E ok \in BOOLEAN : Step(BackoffDone(c, ok))

FairSpec == Spec /\ \A c \in Calls : WF_vars(LoopProgress(c))

\* The intake of one DingTalk stream: frames arrive one at a time, each when
\* the clock has advanced by one of Deltas.
InitIntake ==
    /\ mode = "intake"
    /\ op = "init"
    /\ InitDingtalk
    /\ InitQQ
    /\ InitDedup
    /\ InitBackoff
    /\ InitCodec
    /\ InitExtensions

NextIntake ==
    /\ UNCHANGED <<mode, dvars, qvars, bvars, cvars, evars>>
    /\ \/ \E id \in MsgIds \cup {NoId}, parses \in BOOLEAN, d \in Deltas :
             processDingtalkInbound(id, FALSE, parses, now + d) /\ op' = "frame"
       \/ clearDingtalkMessageDedupeCache /\ op' = "clear"

SpecDedup == InitIntake /\ [][NextIntake]_vars

\* The cache after n frames with the ids f1, f2, ... have been taken in, 200
\* in each millisecond, and the time at which the last of them arrived.
FilledCache(n) == [k \in 1..n |-> <<"f" \o ToString(k), k \div 200>>]
FilledAt(n) == n \div 200

\* Number of frames in a behaviour of SpecFull.
MaxFullFrames == 3

\* The intake with a cache that earlier frames have filled up to the limit,
\* or to one entry less: the oldest id and two new ids arrive, the next
\* millisecond or just before the oldest entries expire.
InitFull ==
    /\ mode = "full"
    /\ op = "init"
    /\ InitDingtalk
    /\ InitQQ
    /\ InitBackoff
    /\ InitCodec
    /\ InitExtensions
    /\ \E n \in {MESSAGE_DEDUP_MAX_ENTRIES - 1, MESSAGE_DEDUP_MAX_ENTRIES} :
          /\ processedMessages = FilledCache(n)
          /\ now = FilledAt(n)
    /\ delivered = <<>>

NextFull ==
    /\ UNCHANGED <<mode, dvars, qvars, bvars, cvars, evars>>
    /\ Len(delivered) < MaxFullFrames
    /\ \E id \in {"f1"} \cup MsgIds, d \in Deltas :
          processDingtalkInbound(id, FALSE, TRUE, now + d) /\ op' = "frame"

SpecFull == InitFull /\ [][NextFull]_vars

\* The robot callback with a transport whose ACK call may throw: frames with
\* and without a message id arrive 1 ms apart.
InitAck ==
    /\ mode = "ack"
    /\ op = "init"
    /\ InitDingtalk
    /\ InitQQ
    /\ InitDedup
    /\ InitBackoff
    /\ InitCodec
    /\ InitExtensions

NextAck ==
    /\ UNCHANGED <<mode, dvars, qvars, bvars, cvars, evars>>
    /\ \E id \in MsgIds \cup {NoId}, ackThrows \in BOOLEAN, parses \in BOOLEAN :
          processDingtalkInbound(id, ackThrows, parses, now + 1) /\ op' = "frame"

SpecAck == InitAck /\ [][NextAck]_vars

\* The sessions of one runGatewayLoop call: the connect attempt settles,
\* frames arrive, the watchdog wakes up every WATCHDOG_INTERVAL_MS and reads
\* the client (a client that is registered is connected), the session
\* returns, the backoff sleep ends.
InitWatch ==
    /\ mode = "session"
    /\ op = "init"
    /\ InitDingtalk
    /\ InitQQ
    /\ InitDedup
    /\ InitBackoff
    /\ InitCodec
    /\ InitExtensions

NextWatch ==
    /\ UNCHANGED <<mode, dvars, qvars, ivars, bvars, cvars, svars, wvars, tvars, hvars>>
    /\ \/ \E a \in {"aborted", "timeout", "error", "started"},
             cn \in BOOLEAN, rg \in BOOLEAN :
             (rg => cn) /\ SessionConnect(a, cn, rg) /\ op' = "connect"
       \/ MessageAccepted /\ op' = "accepted"
       \/ FrameDropped /\ op' = "dropped"
       \/ \E ab \in BOOLEAN : SessionReturned(ab) /\ op' = "returned"
       \/ \E keep \in BOOLEAN : SessionBackoffDone(keep) /\ op' = "backoff"
       \/ \E keep \in BOOLEAN, cn \in BOOLEAN, rg \in BOOLEAN :
             (rg => cn) /\ SessionTick(WATCHDOG_INTERVAL_MS, keep, cn, rg) /\ op' = "tick"

SpecSession == InitWatch /\ [][NextWatch]_vars

\* One QQ gateway connection: the connect attempt settles, the sockets open,
\* deliver payloads, fail and close, the timers fire.
InitGateway ==
    /\ mode = "gateway"
    /\ op = "init"
    /\ InitDingtalk
    /\ InitQQ
    /\ InitDedup
    /\ InitBackoff
    /\ InitCodec
    /\ InitExtensions

GatewayStep(payloads) ==
    /\ UNCHANGED <<mode, dvars, qvars, ivars, bvars, cvars, svars, wvars, tvars, gvars,
                   handlers>>
    /\ \/ \E ok \in BOOLEAN : GwConnectSettled(ok) /\ op' = "connect"
       \/ \E s \in GwSockets : GwSocketOpen(s) /\ op' = "open"
       \/ \E s \in GwSockets : GwSocketClose(s) /\ op' = "close"
       \/ \E s \in GwSockets : GwSocketError(s) /\ op' = "error"
       \/ \E s \in GwSockets, payload \in payloads :
             GwPayload(s, payload) /\ op' = "payload"
       \/ \E ok \in BOOLEAN : GwHelloTokenSettled(ok) /\ op' = "helloSettled"
       \/ \E ok \in BOOLEAN : GwDispatchSettled(ok) /\ op' = "dispatchSettled"
       \/ GwHeartbeat /\ op' = "heartbeat"
       \/ GwReconnectTimerFired /\ op' = "timer"
    \* invalid session (op 9) also calls clearTokenCache
    /\ qtoken' = IF op' = "payload" /\ gw'.last.opc = 9
                 THEN [qtoken EXCEPT !.tokenCache = NoCache]
                 ELSE qtoken

NextGateway == GatewayStep(GatewayPayloads)

SpecGateway == InitGateway /\ [][NextGateway]_vars

\* The two supervisors with their downstream handlers: a DingTalk session
\* that receives frames while its watchdog runs, and a QQ gateway
\* connection; a handler call that has been started settles at any later
\* time or never.  The frames are a first delivery, a redelivery and a frame
\* without id, with a payload that parses or not, ACKed without error.
InitDetached ==
    /\ mode \in {"dingtalk", "qqbot"}
    /\ op = "init"
    /\ InitDingtalk
    /\ InitQQ
    /\ InitDedup
    /\ InitBackoff
    /\ InitCodec
    /\ InitExtensions

NextDingtalkSession ==
    /\ UNCHANGED <<mode, dvars, qvars, bvars, cvars, svars, wvars, tvars>>
    /\ \/ \E a \in {"aborted", "timeout", "error", "started"},
             cn \in BOOLEAN, rg \in BOOLEAN :
             /\ rg => cn
             /\ SessionConnect(a, cn, rg)
             /\ UNCHANGED <<ivars, hvars>>
             /\ op' = "connect"
       \/ \E id \in {"m1", NoId}, parses \in BOOLEAN :
             DingtalkFrame(id, FALSE, parses) /\ op' = "frame"
       \/ \E i \in 1..MaxDetachedFrames, ok \in BOOLEAN :
             HandlerSettled(i, ok) /\ op' = "handlerSettled"
       \/ \E keep \in BOOLEAN, cn \in BOOLEAN, rg \in BOOLEAN :
             /\ rg => cn
             /\ session.passes < MaxDetachedPasses
             /\ SessionTick(WATCHDOG_INTERVAL_MS, keep, cn, rg)
             /\ UNCHANGED <<ivars, hvars>>
             /\ op' = "tick"

\* The payloads of the gateway connection with its handlers: hello,
\* reconnect, and events without sequence number.
DetachedPayloads ==
    {payload \in GatewayPayloads :
        payload.opc \in {0, 7, 10} /\ payload.t \in {"", "MESSAGE"} /\ payload.s = Null}

NextDetached ==
    \/ mode = "dingtalk" /\ NextDingtalkSession
    \/ mode = "qqbot" /\ GatewayStep(DetachedPayloads)

SpecDetached == InitDetached /\ [][NextDetached]_vars

\* The token cache: callers ask for the token at any time, also while a
\* request is in flight; requests settle, the cache is cleared, time passes.
InitTokens ==
    /\ mode = "token"
    /\ op = "init"
    /\ InitDingtalk
    /\ InitQQ
    /\ InitDedup
    /\ InitBackoff
    /\ InitCodec
    /\ InitExtensions

NextTokens ==
    /\ UNCHANGED <<mode, dvars, qvars, ivars, bvars, cvars, svars, wvars, tvars, gvars,
                   gw, handlers>>
    /\ \/ TokenCall /\ op' = "call"
       \/ \E r \in 1..MaxTokenCalls, expiresIn \in ExpiresInSamples :
             TokenResponse(r, "token", expiresIn) /\ op' = "response"
       \/ \E r \in 1..MaxTokenCalls, outcome \in {"missing", "error"} :
             TokenResponse(r, outcome, Null) /\ op' = "failure"
       \/ clearTokenCache /\ op' = "clear"
       \/ \E delta \in TokenDeltas : TokenTimePasses(delta) /\ op' = "time"

SpecTokens == InitTokens /\ [][NextTokens]_vars

\* resolveReconnectDelayMs applied to each pair of arguments.
InitDelay ==
    /\ mode = "backoff"
    /\ op = "init"
    /\ InitDingtalk
    /\ InitQQ
    /\ InitDedup
    /\ InitCodec
    /\ InitExtensions
    /\ attempt \in Attempts
    /\ randomValue \in RandomSamples
    /\ delayMs = -1

NextDelay ==
    /\ ResolveDelay
    /\ op' = "resolve"
    /\ UNCHANGED <<mode, dvars, qvars, ivars, cvars, evars>>

SpecBackoff == InitDelay /\ [][NextDelay]_vars

\* encrypt, then decrypt, for each plaintext, key, receive id and random prefix.
InitRoundTrip ==
    /\ mode = "codec"
    /\ op = "init"
    /\ InitDingtalk
    /\ InitQQ
    /\ InitDedup
    /\ InitBackoff
    /\ InitExtensions
    /\ aesKey \in Keys
    /\ receiverId \in ReceiverIds
    /\ text \in Strings(MaxTextLen)
    /\ random \in RandomPrefixes
    /\ encrypted = <<>>
    /\ decrypted = <<>>

NextRoundTrip ==
    /\ UNCHANGED <<mode, dvars, qvars, ivars, bvars, evars>>
    /\ \/ Encrypt /\ op' = "encrypt"
       \/ Decrypt /\ op' = "decrypt"

SpecCodec == InitRoundTrip /\ [][NextRoundTrip]_vars

\* The receive ids of the accounts that receive: none, "ww1234567" and
\* "ww7654321".
ConfiguredIds == ReceiverIds \cup {<<119, 119, 55, 54, 53, 52, 51, 50, 49>>}

\* new WXBizJsonMsgCrypt(token, encodingAESKey, rid): the receiving account
\* has the sender's key and the receive id rid.
Receiver(rid) ==
    /\ op = "encrypt"
    /\ receiverId' = rid
    /\ UNCHANGED <<aesKey, text, random, encrypted, decrypted>>

\* A payload is encrypted for one receive id and decrypted by an account
\* configured with the same key and any receive id.
InitReceiver ==
    /\ mode = "receiver"
    /\ op = "init"
    /\ InitDingtalk
    /\ InitQQ
    /\ InitDedup
    /\ InitBackoff
    /\ InitExtensions
    /\ aesKey \in Keys
    /\ receiverId \in ReceiverIds
    /\ text \in Strings(MaxTextLen)
    /\ random \in RandomPrefixes
    /\ encrypted = <<>>
    /\ decrypted = <<>>

NextReceiver ==
    /\ UNCHANGED <<mode, dvars, qvars, ivars, bvars, evars>>
    /\ \/ Encrypt /\ op' = "encrypt"
       \/ \E rid \in ConfiguredIds : Receiver(rid) /\ op' = "receiver"
       \/ op = "receiver" /\ Decrypt /\ op' = "decrypt"

SpecReceiver == InitReceiver /\ [][NextReceiver]_vars

\* getSignature on four values, then on the same values in another order or
\* with one of them replaced.
InitStability ==
    /\ mode = "signature"
    /\ op = "init"
    /\ InitDingtalk
    /\ InitQQ
    /\ InitDedup
    /\ InitBackoff
    /\ InitCodec
    /\ InitSession
    /\ InitGw
    /\ InitTk
    /\ InitWebhook
    /\ core = TRUE
    /\ InitText
    /\ supplied \in [SigFields -> SigValues]
    /\ signature = <<>>
    /\ resupplied = [f \in SigFields |-> <<>>]
    /\ signature2 = <<>>

NextStability ==
    /\ UNCHANGED <<mode, dvars, qvars, ivars, bvars, cvars, wvars, tvars, gvars, hvars>>
    /\ \/ ComputeSignature /\ op' = "sign"
       \/ \E p \in Permutations(SigFields) : Resupply(p) /\ op' = "reorder"
       \/ \E f \in SigFields, v \in SigValues : ReplaceOne(f, v) /\ op' = "replace"

SpecSignature == InitStability /\ [][NextStability]_vars

\* The accounts a behaviour registers: app, app1, app2 share token and key;
\* app and app2 share the receive id; app1 and app2 share the agent id.
Profiles ==
    { Account("app", "t1", "k1", "corpA", 1001, FALSE),
      Account("app1", "t1", "k1", "corpB", 2002, FALSE),
      Account("app2", "t1", "k1", "corpA", 2002, FALSE),
      Account("app3", "t2", "k2", "corpB", 1001, TRUE),
      Account("nokey", "t1", NoKey, "corpA", 1001, FALSE),
      Account("notoken", NoToken, "k1", "corpA", 1001, FALSE) }

\* What a request's signature was computed with.
Signers == {"t1", "t2", "forged"}

Message(msgtype, msgid, agent, streamId) ==
    [msgtype |-> msgtype, msgid |-> msgid, agentId |-> agent, streamId |-> streamId]

\* Payloads encrypted for corpA (with and without AgentID), for corpB under
\* either key, and under a key and receive id that no account combines.
RoutedPayloads ==
    { [key |-> f[1], receiveId |-> f[2], msg |-> Message("text", "m1", f[3], 0)] :
        f \in { <<"k1", "corpA", NoAgent>>, <<"k1", "corpA", 1001>>,
                <<"k1", "corpA", 2002>>, <<"k1", "corpB", NoAgent>>,
                <<"k1", "corpB", 2002>>, <<"k2", "corpB", 1001>>,
                <<"k2", "corpA", NoAgent>> } }

FailedBodies ==
    { [read |-> "payload too large", format |-> "json", xmlSigner |-> "absent",
       payload |-> NoPayload],
      [read |-> "empty payload", format |-> "json", xmlSigner |-> "absent",
       payload |-> NoPayload],
      [read |-> "ok", format |-> "invalid", xmlSigner |-> "absent", payload |-> NoPayload] }

RoutedBodies ==
    { [read |-> "ok", format |-> f[1], xmlSigner |-> f[2], payload |-> pl] :
        f \in {<<"json", "absent">>, <<"xml", "absent">>, <<"xml", "t1">>},
        pl \in RoutedPayloads \cup {NoPayload} } \cup FailedBodies

\* The webhook: accounts are registered and unregistered, then one request
\* arrives.
InitRouting ==
    /\ mode = "routing"
    /\ op = "init"
    /\ InitDingtalk
    /\ InitQQ
    /\ InitDedup
    /\ InitBackoff
    /\ InitCodec
    /\ InitSession
    /\ InitGw
    /\ InitTk
    /\ InitSignature
    /\ InitText
    /\ InitWebhook
    /\ core = TRUE

NextRouting ==
    /\ UNCHANGED <<mode, dvars, qvars, ivars, bvars, cvars, svars, tvars, gvars, hvars>>
    /\ \/ \E a \in Profiles :
             /\ rq[1].pc = "new"
             /\ Len(webhookTargets) < MaxTargets
             /\ registerWecomAppWebhookTarget(a)
             /\ op' = "register"
       \/ \E i \in 1..MaxTargets :
             rq[1].pc = "new" /\ Unregister(i) /\ op' = "unregister"
       \/ \E m \in {"GET", "POST", "PUT"} : HandleOther(1, m) /\ op' = "other"
       \/ \E hp \in BOOLEAN, sg \in Signers, pl \in RoutedPayloads :
             HandleGet(1, hp, sg, pl) /\ op' = "get"
       \/ \E hp \in BOOLEAN, sg \in Signers : HandlePost(1, hp, sg) /\ op' = "post"
       \/ \E b \in RoutedBodies : BodyRead(1, b) /\ op' = "body"

SpecRouting == InitRouting /\ [][NextRouting]_vars

\* The account of the streaming behaviours, and the bodies posted to it: a
\* text message with msgid m1, one without msgid, an event with msgid m1, a
\* refresh of stream 1, a refresh that names no stream and carries msgid m1.
StreamAccount == Account("app", "t1", "k1", "corpA", 1001, TRUE)

StreamBodies ==
    { [read |-> "ok", format |-> "json", xmlSigner |-> "absent",
       payload |-> [key |-> "k1", receiveId |-> "corpA", msg |-> msg]] :
        msg \in { Message("text", "m1", NoAgent, 0), Message("text", NoMsgId, NoAgent, 0),
                  Message("event", "m1", NoAgent, 0), Message("stream", NoMsgId, NoAgent, 1),
                  Message("stream", "m1", NoAgent, 0) } }

\* The webhook with one registered account: requests (numbered as they
\* arrive) are handled concurrently, dispatchers run, time passes.
InitStreaming ==
    /\ mode = "streams"
    /\ op = "init"
    /\ InitDingtalk
    /\ InitQQ
    /\ InitDedup
    /\ InitBackoff
    /\ InitCodec
    /\ InitSession
    /\ InitGw
    /\ InitTk
    /\ InitSignature
    /\ InitText
    /\ webhookTargets = <<StreamAccount>>
    /\ streams = <<>>
    /\ msgidToStreamId = [m \in {} |-> 0]
    /\ core \in BOOLEAN
    /\ wnow = 0
    /\ events = 0
    /\ rq = [r \in Requests |-> NewRequest]
    /\ sinkCalls = {}
    /\ decryptCalls = {}
    /\ dispatches = <<>>

NextStreaming ==
    /\ UNCHANGED <<mode, dvars, qvars, ivars, bvars, cvars, svars, tvars, gvars, hvars>>
    /\ \/ \E r \in Requests :
             /\ \A q \in Requests : q < r => rq[q].pc # "new"
             /\ HandlePost(r, TRUE, "t1")
             /\ op' = "post"
       \/ \E r \in Requests, b \in StreamBodies : BodyRead(r, b) /\ op' = "body"
       \/ \E k \in Requests : onChunk(k, <<97>>) /\ op' = "chunk"
       \/ \E k \in Requests : onError(k) /\ op' = "error"
       \/ \E k \in Requests : DispatchResolved(k) /\ op' = "resolved"
       \/ \E k \in Requests : DispatchRejected(k) /\ op' = "rejected"
       \/ Tick /\ op' = "tick"

SpecStreams == InitStreaming /\ [][NextStreaming]_vars

\* truncateUtf8Bytes and splitMessageByBytes on each text and each limit.
InitHelpers ==
    /\ mode = "text"
    /\ op = "init"
    /\ InitDingtalk
    /\ InitQQ
    /\ InitDedup
    /\ InitBackoff
    /\ InitCodec
    /\ InitSession
    /\ InitGw
    /\ InitTk
    /\ InitSignature
    /\ InitWebhook
    /\ core = TRUE
    /\ inputText \in Strings(MaxTextLen)
    /\ maxBytes \in 1..MaxBytes
    /\ returned = <<>>

NextHelpers ==
    /\ op = "init"
    /\ UNCHANGED <<mode, dvars, qvars, ivars, bvars, cvars, svars, wvars, gvars, hvars>>
    /\ \/ Truncate /\ op' = "truncate"
       \/ Split /\ op' = "split"

SpecText == InitHelpers /\ [][NextHelpers]_vars

(***************************************************************************)
(* Properties: supervisor lifecycles                                       *)
(***************************************************************************)

\* A supervisor loop of call c exists: runGatewayLoop has not returned.
Running(c) == lpc[c] \in {"connect", "watch", "backoff"}

\* C1: DingTalk - at most one supervisor loop, and so at most one live
\* stream client, exists at any time, whatever the interleaving of the calls
\* of monitorDingtalkProvider.
C1_SingleSupervisor ==
    /\ Cardinality({c \in Calls : Running(c)}) <= 1
    /\ Cardinality({c \in Calls : client[c] = "live"}) <= 1

\* A monitor of the QQ module is alive: its executor ran and finish did not.
QQRunning(m) == qcall[m] = "started" /\ ~stopped[m]

\* C2: QQ - while a promise returned by monitorQQBotProvider is unsettled
\* there is one connect/reconnect loop, and the stored promise and stop
\* function are those of that loop (no later call replaces them).
C2_SingleLoop ==
    /\ Cardinality({m \in QCalls : QQRunning(m)}) <= 1
    /\ \A m \in QCalls : qpromise[m] = "pending" => activePromise = m /\ activeStop = m

\* C3: DingTalk - a call of monitorDingtalkProvider that names an account
\* other than the one of a running monitor throws and leaves the module state
\* (client, promise, account id, stop function) as it was.
C3_MismatchRejected ==
    [][\A c \in Calls :
          (/\ call[c] = "new"
           /\ call'[c] # "new"
           /\ \E r \in Calls : Running(r) /\ acct[r] # acct'[c])
          => (call'[c] = "threw" /\ UNCHANGED dmodule)]_vars

\* C4: a stop that directly follows a stop changes no state, and right after
\* a stop a further stop would cause no abort, disconnect, close or
\* promise settlement (DingTalk and QQ).
C4_SecondStopNoOp ==
    /\ [](op = "stop" => StopEffects = {} /\ QQStopEffects = {})
    /\ [][(op = "stop" /\ op' = "stop") => UNCHANGED <<dvars, qvars>>]_vars

\* C4 witness: a stop has just acted on a running DingTalk monitor.
C4_Witness ==
    /\ op = "stop"
    /\ \E c \in Calls : Running(c) /\ aborted[c] /\ currentStop = c

\* C5: DingTalk - the monitor promise resolves only after stop or abort was
\* requested; a step of a session that is not aborted leaves the promise
\* pending and leads to the watchdog or to the backoff sleep; the end of a
\* backoff sleep that is not aborted starts a new session with a new client,
\* unless constructing the client throws, which is the only rejection.
C5_SettlesOnlyOnStopOrInit ==
    /\ [](\A c \in Calls : promise[c] = "resolved" => aborted[c])
    /\ [][\A c \in Calls :
            /\ (lpc[c] \in {"connect", "watch"} /\ ~aborted[c])
                  => (lpc'[c] \in {"connect", "watch", "backoff"} /\ promise'[c] = "pending")
            /\ (lpc[c] = "backoff" /\ ~aborted[c] /\ lpc'[c] # "backoff")
                  => \/ (lpc'[c] = "connect" /\ client'[c] = "live" /\ promise'[c] = "pending")
                     \/ (lpc'[c] = "done" /\ promise'[c] = "rejected")
            /\ (promise[c] # "rejected" /\ promise'[c] = "rejected")
                  => (~aborted[c] /\ (lpc[c] = "backoff" \/ call[c] = "prestart"))
         ]_vars

\* C5 witness: a session has failed, the loop is in its backoff sleep without
\* an abort, and the promise is still pending.
C5_Witness ==
    \E c \in Calls : lpc[c] = "backoff" /\ client[c] = "closed" /\ ~aborted[c]
                      /\ promise[c] = "pending"

\* C6: DingTalk - once the abort signal has fired or stopDingtalkMonitor has
\* been called after monitorDingtalkProvider was invoked (and before its
\* promise settled), the monitor promise eventually resolves.
C6_StopResolves ==
    \A c \in Calls :
        ((call[c] = "prestart" \/ (call[c] = "started" /\ promise[c] = "pending"))
            /\ (op = "stop" \/ aborted[c]))
        ~> (promise[c] = "resolved")

\* C7: QQ - once finish has run (abort or stop), the promise is resolved, no
\* heartbeat interval and no reconnect timer of the monitor is scheduled and
\* no socket created by the monitor is open.
C7_StoppedIsQuiet ==
    \A m \in QCalls :
        stopped[m] =>
            /\ qpromise[m] = "resolved"
            /\ ~heartbeatTimer[m]
            /\ ~reconnectTimer[m]
            /\ \A s \in Sockets : sowner[s] = m => sstate[s] # "OPEN"

(***************************************************************************)
(* Properties: DingTalk dedup                                              *)
(***************************************************************************)

Frames == DOMAIN delivered

\* No cache clear was recorded strictly between events i and j.
NoClearBetween(i, j) == \A k \in Frames : (i < k /\ k < j) => delivered[k].id # "clear"

\* Frames i and j are the first and the second frame that carry m, and the
\* cache was not cleared before the second.
FirstTwo(i, j, m) ==
    /\ i < j
    /\ delivered[i].id = m
    /\ delivered[j].id = m
    /\ \A k \in Frames : (k < j /\ k # i) => delivered[k].id \notin {m, "clear"}

CallsOf(i) == IF delivered[i].called THEN 1 ELSE 0

\* C8: for every message id m, the first two frames that carry m cause
\* exactly one call of handleDingtalkMessage when the second arrives within
\* the TTL of the first, and two calls when it arrives after the TTL.
C8_ExactlyOnce ==
    \A m \in MsgIds : \A i \in Frames, j \in Frames :
        FirstTwo(i, j, m) =>
            IF delivered[j].at - delivered[i].at < MESSAGE_DEDUP_TTL_MS
            THEN CallsOf(i) + CallsOf(j) = 1
            ELSE CallsOf(i) + CallsOf(j) = 2

\* The frames before j that carry m, were not dropped as duplicates (their
\* arrival time was recorded) and are not separated from j by a cache clear.
Recorded(j, m) ==
    {i \in Frames : i < j /\ delivered[i].id = m /\ ~delivered[i].dup /\ NoClearBetween(i, j)}

\* C8 (amended): a frame that carries m and arrives less than 60000 ms after
\* the last recorded frame of m is dropped: it causes no handler call, so the
\* two frames cause at most one call, exactly one iff the recorded frame's
\* payload parsed.  A frame that arrives 60000 ms or more after the last
\* recorded frame of m, or with no recorded frame of m, is treated as new:
\* it is recorded and causes a call iff its payload parses.
C8_DedupWindow ==
    \A m \in MsgIds : \A j \in Frames :
        delivered[j].id = m =>
            /\ delivered[j].called <=> (~delivered[j].dup /\ delivered[j].parses)
            /\ IF Recorded(j, m) = {}
               THEN ~delivered[j].dup
               ELSE LET i == CHOOSE x \in Recorded(j, m) : \A y \in Recorded(j, m) : y <= x
                    IN  /\ delivered[j].dup
                            <=> (delivered[j].at - delivered[i].at < MESSAGE_DEDUP_TTL_MS)
                        /\ delivered[j].dup
                            => CallsOf(i) + CallsOf(j) = (IF delivered[i].parses THEN 1 ELSE 0)

\* C8 witness: a frame of m was dispatched, a second one 1 ms later was
\* dropped, and a third one exactly 60000 ms after the first was dispatched.
C8_Witness ==
    \E m \in MsgIds : \E i \in Frames, j \in Frames, k \in Frames :
        /\ i < j /\ j < k
        /\ delivered[i].id = m /\ delivered[j].id = m /\ delivered[k].id = m
        /\ delivered[i].called
        /\ delivered[j].dup
        /\ delivered[k].at - delivered[i].at = MESSAGE_DEDUP_TTL_MS
        /\ delivered[k].called

(***************************************************************************)
(* Properties: reconnect backoff                                           *)
(***************************************************************************)

\* RECONNECT_MAX_DELAY_MS x 1.2
MaxJittered == (RECONNECT_MAX_DELAY_MS * 12) \div 10

\* v = min(60000, 1000 x 2^(a-1)), also for a < 1, where 2^(a-1) is a fraction.
IsCappedExponential(v, a) ==
    IF a >= 1
    THEN v = Min(RECONNECT_MAX_DELAY_MS, RECONNECT_BASE_DELAY_MS * Pow2(a - 1))
    ELSE v * Pow2(1 - a) = RECONNECT_BASE_DELAY_MS

\* The bounds and the monotonicity of C9, for the call recorded in the state.
DelayBoundedAndMonotone ==
    /\ delayMs >= RECONNECT_BASE_DELAY_MS
    /\ delayMs <= MaxJittered
    /\ resolveReconnectDelayMs(attempt + 1, randomValue) >= delayMs

\* C9: the delay is at least 1000 and at most 72000 for every attempt and
\* every randomValue, does not decrease when attempt grows, and with
\* randomValue 0.5 equals min(60000, 1000 x 2^(attempt-1)) for every attempt.
C9_DelayAsClaimed ==
    delayMs # -1 =>
        /\ DelayBoundedAndMonotone
        /\ randomValue = 500 => IsCappedExponential(delayMs, attempt)

\* C9 (amended): the delay is at least 1000 and at most 72000 for every
\* attempt and every randomValue, does not decrease when attempt grows, and
\* with randomValue 0.5 equals min(60000, 1000 x 2^(max(1, attempt)-1)): 1000
\* for every attempt below 1; (1, 0.5) gives 1000 and (10, 0.5) gives 60000.
C9_DelayBounds ==
    delayMs # -1 =>
        /\ DelayBoundedAndMonotone
        /\ randomValue = 500 => IsCappedExponential(delayMs, Max(1, attempt))
        /\ (attempt = 1 /\ randomValue = 500) => delayMs = 1000
        /\ (attempt = 10 /\ randomValue = 500) => delayMs = 60000

\* C9 witness: the call with attempt 0 and randomValue 0.5 returned 1000.
C9_Witness ==
    attempt = 0 /\ randomValue = 500 /\ delayMs = RECONNECT_BASE_DELAY_MS

(***************************************************************************)
(* Properties: webhook codec                                               *)
(***************************************************************************)

\* Length of the unpadded envelope of the plaintext in the state.
EnvelopeLen == 20 + Len(Utf8Encode(text)) + Len(Utf8Encode(receiverId))

\* C10: decrypting what encrypt returned, with the same key and receive id,
\* returns exactly the plaintext; the ciphertext is the envelope
\* [16 random bytes][4-byte big-endian content length][content][receiverId]
\* padded PKCS#7-style to a multiple of 32 bytes.
C10_RoundTrip ==
    /\ encrypted # <<>> =>
          LET raw == CbcDecrypt(aesKey, SubSeq(aesKey, 1, 16), Base64Decode(encrypted))
          IN  /\ Len(raw) % 32 = 0
              /\ Len(raw) = EnvelopeLen + raw[Len(raw)]
              /\ SubSeq(raw, 1, EnvelopeLen)
                    = random \o UInt32BE(Len(Utf8Encode(text))) \o Utf8Encode(text)
                      \o Utf8Encode(receiverId)
    /\ decrypted # <<>> => decrypted = <<"ok", text>>

\* C10 witness: a round trip of a plaintext with a multi-byte character, with
\* a receive id, whose envelope fills its blocks so that 32 bytes of padding
\* are added.
C10_Witness ==
    /\ decrypted = <<"ok", text>>
    /\ \E k \in DOMAIN text : text[k] >= 128
    /\ receiverId # <<>>
    /\ EnvelopeLen % 32 = 0

(***************************************************************************)
(* Properties: webhook signature                                           *)
(***************************************************************************)

\* The second call was given the values of the first in some order.
Reordered == op = "reorder"

\* The second call was given the values of the first but for one.
Replaced == op = "replace"

SigLength(v) == Len(v.token) + Len(v.timestamp) + Len(v.nonce) + Len(v.encrypt)

\* C11 (as stated): the signature over (token, timestamp, nonce, encrypt) is
\* the same for every order in which the four values are supplied, and it is
\* different whenever exactly one of the four is replaced by another string
\* while the other three stay the same.
C11_SignatureStability ==
    /\ Reordered => signature2 = signature
    /\ Replaced => signature2 # signature

\* C11 (amended): the signature is the same for every order in which the four
\* values are supplied; it is different whenever exactly one of the four is
\* replaced by a string of another length, and, for a replacement of any
\* length, exactly when the four values put in sorted order and concatenated
\* give another string.
C11_StableUnderOrder ==
    /\ Reordered => signature2 = signature
    /\ Replaced /\ SigLength(resupplied) # SigLength(supplied) => signature2 # signature
    /\ Replaced =>
         ((signature2 = signature) <=>
            ArrayJoin(ArraySort(<<resupplied.token, resupplied.timestamp,
                                  resupplied.nonce, resupplied.encrypt>>))
            = ArrayJoin(ArraySort(<<supplied.token, supplied.timestamp,
                                    supplied.nonce, supplied.encrypt>>)))

\* The four values, not all equal, were supplied again in another order.
C11_Witness ==
    /\ Reordered
    /\ resupplied # supplied
    /\ signature2 = signature

(***************************************************************************)
(* Properties: wecom-app webhook routing                                   *)
(***************************************************************************)

\* The handler of POST request r has returned after reading a body that
\* carried an encrypted value.
PostDone(r) ==
    /\ rq[r].pc = "done"
    /\ rq[r].method = "POST"
    /\ rq[r].payload # NoPayload

\* The target accepts the signature of request r.
Accepts(t, r) == t.token # NoToken /\ verifyWecomAppSignature(t.token, rq[r].signer)

\* The payload of request r was encrypted for target t: with its key and its
\* receive id.
EncryptedFor(t, r) ==
    /\ t.encodingAESKey # NoKey
    /\ rq[r].payload.key = t.encodingAESKey
    /\ rq[r].payload.receiveId = t.receiveId

\* The indices of the targets whose status sink request r called.
SinksCalledBy(r) ==
    {c.target : c \in {d \in sinkCalls : d.kind = "lastInboundAt" /\ d.request = r}}

\* Targets A and B, A registered first, both accept the signature of request r
\* and have different receive ids, and the payload was encrypted for B.
TwoReceivers(r) ==
    LET t == rq[r].targets
    IN /\ Len(t) = 2
       /\ Accepts(t[1], r)
       /\ Accepts(t[2], r)
       /\ t[1].receiveId # t[2].receiveId
       /\ EncryptedFor(t[2], r)

\* C12: with accounts A and B registered on the same path, A first, both
\* accepting the signature and configured with different receive ids, a POST
\* whose payload was encrypted for B's receive id is handled as B: B's status
\* sink is called, A's is not.
C12_RoutedByReceiveId ==
    PostDone(1) /\ TwoReceivers(1) =>
        /\ rq[1].status = 200
        /\ rq[1].selected = 2
        /\ SinksCalledBy(1) = {2}

\* Such a request has been answered.
C12_Witness ==
    /\ PostDone(1)
    /\ TwoReceivers(1)
    /\ rq[1].targets[1].encodingAESKey = rq[1].targets[2].encodingAESKey
    /\ SinksCalledBy(1) = {2}

\* The handler of request r has returned after it got hold of the encrypted
\* value (echostr of a GET, Encrypt of a POST body).
Routed(r) ==
    /\ rq[r].pc = "done"
    /\ rq[r].payload # NoPayload

\* The indices of the targets that accept the signature of request r and
\* decrypt its payload without error.
Decrypting(r) ==
    {i \in 1..Len(rq[r].targets) :
        Accepts(rq[r].targets[i], r) /\ EncryptedFor(rq[r].targets[i], r)}

\* Those of them whose configured agentId is the AgentID in the payload.
AgentMatching(r) ==
    {i \in Decrypting(r) :
        /\ rq[r].payload.msg.agentId # NoAgent
        /\ rq[r].targets[i].agentId = rq[r].payload.msg.agentId}

\* C13: when several accounts of the path accept the signature and decrypt
\* the payload, the request is handled as the one of them whose configured
\* agentId is the AgentID in the payload, wherever it stands in the
\* registration order; when exactly one account decrypts, that one is used.
C13_RoutedByAgentId ==
    Routed(1) /\ Decrypting(1) # {} =>
        /\ rq[1].status = 200
        /\ rq[1].selected \in Decrypting(1)
        /\ Cardinality(AgentMatching(1)) = 1 => rq[1].selected \in AgentMatching(1)

\* Several accounts decrypted, the one with the AgentID of the payload was
\* not registered first, and it was selected.
C13_Witness ==
    /\ Routed(1)
    /\ Cardinality(Decrypting(1)) >= 2
    /\ AgentMatching(1) = {2}
    /\ rq[1].selected = 2
    /\ rq[1].method = "POST"

\* No target that request r saw accepts its signature.
NoneAccepts(r) == \A i \in 1..Len(rq[r].targets) : ~Accepts(rq[r].targets[i], r)

\* C16: for every GET and POST, decryption is attempted only with the keys of
\* accounts whose token verified the request's signature; when no registered
\* account's token verifies it, the response is 401, nothing is decrypted, no
\* status sink is called, no StreamState is created and nothing is dispatched.
C16_VerifiedBeforeDecrypt ==
    /\ \A d \in decryptCalls :
          \E i \in 1..Len(rq[d[1]].targets) :
             /\ rq[d[1]].targets[i].accountId = d[2]
             /\ Accepts(rq[d[1]].targets[i], d[1])
    /\ Routed(1) /\ NoneAccepts(1) =>
          /\ rq[1].status = 401
          /\ decryptCalls = {}
          /\ sinkCalls = {}
          /\ streams = <<>>
          /\ dispatches = <<>>

\* A POST whose signature no account accepts, on a path with an account that
\* could have decrypted its payload, was answered.
C16_Witness ==
    /\ Routed(1)
    /\ rq[1].method = "POST"
    /\ NoneAccepts(1)
    /\ \E i \in 1..Len(rq[1].targets) : EncryptedFor(rq[1].targets[i], 1)
    /\ rq[1].status = 401

(***************************************************************************)
(* Properties: wecom-app text helpers                                      *)
(***************************************************************************)

IsSuffix(x, y) == Len(x) <= Len(y) /\ x = SubSeq(y, Len(y) - Len(x) + 1, Len(y))

\* C14: the content buildStreamReplyFromState returns (truncateUtf8Bytes of the
\* stored content) is never longer than the limit in UTF-8 bytes, also when
\* the cut falls inside a multi-byte character, and when it was truncated it
\* is the end of the stored content.
C14_TruncatedToLimit ==
    op = "truncate" =>
        /\ Len(Utf8Encode(returned)) <= maxBytes
        /\ IsSuffix(returned, inputText)

\* C15: for every string and every maxBytes of at least 4, the chunks of
\* splitMessageByBytes concatenated in order are the string, no chunk is
\* empty, no chunk is longer than maxBytes UTF-8 bytes, and no character is
\* split: the bytes of every chunk are the encoding of whole characters.
C15_ChunksReproduceText ==
    op = "split" /\ maxBytes >= 4 =>
        /\ ArrayJoin(returned) = inputText
        /\ \A k \in 1..Len(returned) :
              /\ returned[k] # <<>>
              /\ Len(Utf8Encode(returned[k])) <= maxBytes
              /\ Utf8Decode(Utf8Encode(returned[k])) = returned[k]
        /\ ArrayJoin([k \in 1..Len(returned) |-> Utf8Encode(returned[k])])
             = Utf8Encode(inputText)

\* A text of multi-byte characters was split into more than one chunk.
C15_Witness ==
    /\ op = "split"
    /\ maxBytes >= 4
    /\ Len(returned) >= 2
    /\ \E k \in 1..Len(inputText) : inputText[k] > 127

(***************************************************************************)
(* Properties: wecom-app streams                                           *)
(***************************************************************************)

\* The k-th dispatch is the one started for stream id and has not settled.
StillRunning(ds, id) == \E k \in 1..Len(ds) : ds[k].streamId = id /\ ds[k].state = "running"

\* In this step the handler of request r ran from the body to its end, and
\* the body carried a message (neither a stream refresh nor an event) whose
\* msgid, if it has one, was not in the index.
AnswersNewMessage(r) ==
    /\ rq[r].pc = "body"
    /\ rq'[r].pc = "done"
    /\ rq'[r].payload.msg.msgtype \notin {"stream", "event"}
    /\ rq'[r].payload.msg.msgid \notin DOMAIN msgidToStreamId

\* In this step a dispatcher failed: its promise was rejected, or its error
\* callback recorded the error in a stream.
DispatcherFails ==
    \/ \E k \in 1..Len(dispatches) :
          dispatches[k].state = "running" /\ dispatches'[k].state = "rejected"
    \/ /\ Len(streams') = Len(streams)
       /\ \E k \in 1..Len(streams) : ~streams[k].error /\ streams'[k].error

\* The streams differ at most in the state (error, content, finished,
\* updatedAt) of one stream.
OnlyOneStreamChanged(ss, tt) ==
    /\ Len(tt) = Len(ss)
    /\ \E k \in 1..Len(ss) \cup {0} :
          \A j \in 1..Len(ss) :
             /\ j # k => tt[j] = ss[j]
             /\ tt[j].streamId = ss[j].streamId
             /\ tt[j].msgid = ss[j].msgid
             /\ tt[j].createdAt = ss[j].createdAt

\* C17: a POST carrying a correctly signed, decryptable, non-duplicate,
\* non-event message is answered with 200 and the stream placeholder
\* (finish=false) encrypted for the selected account, while the dispatcher it
\* started has not settled; a dispatcher failure (rejected promise or error
\* callback) changes no response and nothing but the StreamState.
C17_PlaceholderNeverWaits ==
    [][ /\ \A r \in Requests :
              AnswersNewMessage(r) =>
                 /\ rq'[r].status = 200
                 /\ rq'[r].reply.kind = "stream"
                 /\ rq'[r].reply.finish = FALSE
                 /\ rq'[r].selected \in 1..Len(rq'[r].targets)
                 /\ rq'[r].reply.account = rq'[r].selected
                 /\ ~HasStream(streams, rq'[r].reply.id)
                 /\ HasStream(streams', rq'[r].reply.id)
                 /\ core => StillRunning(dispatches', rq'[r].reply.id)
        /\ DispatcherFails =>
              /\ rq' = rq
              /\ \A r \in Requests : rq'[r].pc = "done" => rq'[r].status = 200
              /\ OnlyOneStreamChanged(streams, streams')
              /\ UNCHANGED <<webhookTargets, msgidToStreamId, sinkCalls, decryptCalls>>
      ]_vars

\* A message was answered with the placeholder while its dispatcher ran; the
\* dispatcher then failed, the stream carries the error and the response is
\* the one given.
C17_Witness ==
    \E r \in Requests :
       /\ rq[r].pc = "done"
       /\ rq[r].status = 200
       /\ rq[r].reply.kind = "stream"
       /\ rq[r].reply.id = r
       /\ ~rq[r].reply.finish
       /\ \E k \in 1..Len(dispatches) :
             dispatches[k].streamId = r /\ dispatches[k].state = "rejected"
       /\ HasStream(streams, r)
       /\ StreamOf(streams, r).error
       /\ StreamOf(streams, r).finished

\* The StreamState created for a message with msgid m exists.
LiveStream(ss, m) == \E k \in 1..Len(ss) : ss[k].msgid = m
LiveStreamId(ss, m) == ss[CHOOSE k \in 1..Len(ss) : ss[k].msgid = m].streamId

\* In this step the handler of request r ran from the body to its end, the
\* body carried msgid m and the StreamState created for m existed.
AnswersRedelivery(r) ==
    /\ rq[r].pc = "body"
    /\ rq'[r].pc = "done"
    /\ rq'[r].payload.msg.msgid # NoMsgId
    /\ LiveStream(streams, rq'[r].payload.msg.msgid)

\* Every msgid has at most one StreamState, the index names it, and the
\* dispatcher was called at most once for it.
OncePerMsgid ==
    \A m \in {"m1"} :
       /\ Cardinality({k \in 1..Len(streams) : streams[k].msgid = m}) <= 1
       /\ LiveStream(streams, m) =>
             /\ m \in DOMAIN msgidToStreamId
             /\ msgidToStreamId[m] = LiveStreamId(streams, m)
       /\ Cardinality({k \in 1..Len(dispatches) :
                          /\ dispatches[k].msgid = m
                          /\ HasStream(streams, dispatches[k].streamId)}) <= 1

\* C19 as stated: while the StreamState created for msgid m exists, every
\* further POST carrying msgid m is answered with the stream id created for
\* the first delivery, creates no StreamState and calls no dispatcher; the
\* dispatcher is called at most once per msgid.
C19_SameStreamPerMsgid ==
    [][ /\ \A r \in Requests :
              AnswersRedelivery(r) =>
                 /\ rq'[r].status = 200
                 /\ rq'[r].reply.kind = "stream"
                 /\ rq'[r].reply.id = LiveStreamId(streams, rq'[r].payload.msg.msgid)
                 /\ streams' = streams
                 /\ msgidToStreamId' = msgidToStreamId
                 /\ dispatches' = dispatches
        /\ OncePerMsgid'
      ]_vars

\* C19 amended: the same, where a msgtype=stream refresh request carrying
\* msgid m is answered for the stream it names instead; it too creates no
\* StreamState and calls no dispatcher.
C19_SameStreamForRedelivery ==
    [][ /\ \A r \in Requests :
              AnswersRedelivery(r) =>
                 /\ rq'[r].status = 200
                 /\ rq'[r].reply.kind = "stream"
                 /\ rq'[r].payload.msg.msgtype # "stream" =>
                       /\ rq'[r].reply.id = LiveStreamId(streams, rq'[r].payload.msg.msgid)
                       /\ rq'[r].reply.finish = FALSE
                 /\ rq'[r].payload.msg.msgtype = "stream" =>
                       rq'[r].reply.id = rq'[r].payload.msg.streamId
                 /\ streams' = streams
                 /\ msgidToStreamId' = msgidToStreamId
                 /\ dispatches' = dispatches
        /\ OncePerMsgid'
      ]_vars

\* Two POSTs carried the same msgid; both were answered with the id of the
\* stream the first one handled created, and the dispatcher was called once.
C19_Witness ==
    \E r \in Requests, q \in Requests :
       /\ r # q
       /\ rq[r].pc = "done" /\ rq[q].pc = "done"
       /\ rq[r].payload.msg.msgid = "m1" /\ rq[q].payload.msg.msgid = "m1"
       /\ rq[r].payload.msg.msgtype = "text" /\ rq[q].payload.msg.msgtype = "text"
       /\ rq[r].reply.id = r /\ rq[q].reply.id = r
       /\ LiveStream(streams, "m1")
       /\ Len(dispatches) = 1

(***************************************************************************)
(* Properties: DingTalk intake, ACK                                        *)
(***************************************************************************)

\* Positions of step x in the calls made for a frame.
StepsAt(f, x) == {k \in 1..Len(f.steps) : f.steps[k] = x}

\* The frame was ACKed once, and before anything else was done with it.
AckedOnceFirst(f) ==
    /\ Cardinality(StepsAt(f, "ack")) = 1
    /\ f.steps[1] = "ack"
    /\ \A k \in StepsAt(f, "dedup") : \A a \in StepsAt(f, "ack") : a < k

\* Frames are handled in their order of arrival: the clock never runs
\* backwards along the log, and a frame is dropped as a duplicate only of a
\* frame that arrived before it.
InArrivalOrder ==
    \A j \in DOMAIN delivered :
       /\ \A i \in DOMAIN delivered : i < j => delivered[i].at <= delivered[j].at
       /\ delivered[j].dup =>
             \E i \in DOMAIN delivered :
                i < j /\ delivered[i].id = delivered[j].id /\ ~delivered[i].dup

\* C18 as stated: every frame delivered to the robot callback is ACKed
\* exactly once per delivery and before the dedup check, whether it is a
\* duplicate, fails to parse or is dispatched; frames are ACKed and
\* dedup-checked in their order of arrival.
C18_EveryFrameAcked ==
    /\ \A j \in DOMAIN delivered : AckedOnceFirst(delivered[j])
    /\ InArrivalOrder

\* C18 amended: the same for every frame that carries a message id; a frame
\* without one is neither ACKed nor dedup-checked.
C18_AckedBeforeDedup ==
    /\ \A j \in DOMAIN delivered :
          IF delivered[j].id # NoId
          THEN /\ AckedOnceFirst(delivered[j])
               /\ Cardinality(StepsAt(delivered[j], "dedup")) = 1
          ELSE /\ StepsAt(delivered[j], "ack") = {}
               /\ StepsAt(delivered[j], "dedup") = {}
    /\ InArrivalOrder

\* A dispatched frame, a duplicate of it whose ACK call threw, and a frame
\* that failed to parse were delivered; each was ACKed.
C18_Witness ==
    \E i, j, k \in DOMAIN delivered :
       /\ i < j
       /\ delivered[i].id = "m1" /\ delivered[i].called
       /\ delivered[j].id = "m1" /\ delivered[j].dup
       /\ StepsAt(delivered[j], "onAckError") # {}
       /\ delivered[k].id = "m2" /\ ~delivered[k].dup /\ ~delivered[k].parses
       /\ \A f \in {i, j, k} : StepsAt(delivered[f], "ack") = {1}

(***************************************************************************)
(* Properties: DingTalk session watchdog                                   *)
(***************************************************************************)

ReconnectReasons == {"connect_timeout", "connect_error", "connection_lost"}

\* The last pass of the watchdog found the transport connected, registration
\* unconfirmed and more than REGISTER_TIMEOUT_MS gone since the session began.
RegistrationOverdue ==
    /\ session.passes > 0
    /\ session.connected
    /\ ~session.registered
    /\ session.now - session.sessionStartAt > REGISTER_TIMEOUT_MS

\* C20: a session is never ended with a reconnect outcome at a pass that
\* finds the transport connected, however long registration stays
\* unconfirmed; a pass that finds registration overdue goes on to the sleep
\* with the state it would have had otherwise, and the warning is logged at
\* most once in a session and only when registration is overdue.
C20_NoReconnectForRegistration ==
    /\ session.pc = "ended" =>
          /\ session.result \in ReconnectReasons \cup {"stopped"}
          /\ session.result \in ReconnectReasons /\ session.passes > 0
                => ~session.connected
    /\ RegistrationOverdue /\ session.result # "stopped" =>
          /\ session.pc = "sleep"
          /\ session.result = "none"
          /\ op \notin {"accepted", "dropped"} =>
                session.state = IF session.hasInboundTraffic THEN "running"
                                ELSE "connected"
          /\ session.registrationWarningLogged
          /\ session.warnings = 1
    /\ session.warnings <= 1
    /\ session.warnings = 1 <=> session.registrationWarningLogged

\* Registration has been overdue at two passes at least: the session goes
\* on, connected, with one warning logged.
C20_Witness ==
    /\ RegistrationOverdue
    /\ session.now - session.sessionStartAt > REGISTER_TIMEOUT_MS + WATCHDOG_INTERVAL_MS
    /\ session.firstRegisteredAt = Null
    /\ session.pc = "sleep"
    /\ session.warnings = 1

\* C21: a frame observed by the session while the transport is connected,
\* whether or not it passes dedup and parsing, is proof of life: after the
\* next watchdog pass that reads connected true the state is running, also
\* when registered is false.
C21_AnyFrameProvesLife ==
    op = "tick" /\ session.pc = "sleep" /\ session.connected /\ session.observedFrame
        => session.state = "running"

\* C22: after the transport has been connected once, a session ends with
\* connection_lost only when connected has been read false at every pass for
\* DISCONNECT_GRACE_MS at least: a pass that reads connected true cancels the
\* grace timer, also without registration and without inbound traffic.
C22_FullGraceAfterRecovery ==
    /\ session.result = "connection_lost" =>
          /\ session.firstConnectedAt # Null
          /\ session.lostSince # Null
          /\ session.now - session.lostSince >= DISCONNECT_GRACE_MS
    /\ op \in {"tick", "connect"} /\ session.pc = "sleep" /\ session.connected
          => session.disconnectedAt = Null

\* C23: the attempt number passed to resolveReconnectDelayMs for the k-th
\* reconnect of a runGatewayLoop call is k: reconnectAttempt grows by one at
\* every reconnect and is never reset, also after a session that was
\* registered and running.
C23_AttemptCountsReconnects ==
    /\ gateway.reconnectAttempt = gateway.reconnectCountTotal
    /\ gateway.delayAttempt = gateway.reconnectCountTotal

\* The second reconnect follows a session that was registered: its delay is
\* computed for attempt 2.
C23_Witness ==
    /\ session.pc = "backoff"
    /\ session.firstRegisteredAt # Null
    /\ gateway.reconnectCountTotal = 2
    /\ gateway.delayAttempt = 2

\* The place of a state in the order of the state machine.
StateRank(st) ==
    CASE st = "connecting" -> 1
      [] st = "connected" -> 2
      [] st = "registered" -> 3
      [] st = "running" -> 4
      [] st = "reconnecting" -> 5
      [] st = "stopped" -> 6

\* C25: within one session the state only moves forward along connecting,
\* connected, registered, running (and on to reconnecting), the only backward
\* move being from reconnecting to running; once the state is stopped it
\* never changes.
C25_StateMovesForward ==
    [][ /\ session.pc \in {"connect", "sleep"} /\ session'.pc \in {"sleep", "ended"} =>
              \/ StateRank(session'.state) >= StateRank(session.state)
              \/ session.state = "reconnecting" /\ session'.state = "running"
        /\ session.state = "stopped" => session'.state = "stopped"
      ]_vars

\* The heartbeat runs at the interval of the hello handled last, on one
\* timer.
HeartbeatAsGiven ==
    gw.last.opc = 10 =>
        /\ gw.intervals = 1
        /\ gw.heartbeatTimer = IF gw.last.d = Null THEN DEFAULT_HEARTBEAT_MS
                               ELSE gw.last.d

\* The frame a hello handler is to send: resume with the stored pair when
\* both are known, identify otherwise.
HandshakeFrame ==
    IF gw.sessionId # Null /\ gw.lastSeq # Null
    THEN [opc |-> 6, session |-> gw.sessionId, seq |-> gw.lastSeq, sock |-> gw.activeSocket]
    ELSE [opc |-> 2, session |-> Null, seq |-> Null, sock |-> gw.activeSocket]

ActiveSocketOpen ==
    gw.activeSocket # 0 /\ gw.readyState[gw.activeSocket] = "OPEN"

NeverResumeWithoutSession ==
    gw.sent.opc = 6 => gw.sessionId # Null /\ gw.sent.session = gw.sessionId

\* C26 as stated: every hello starts the heartbeat at the given interval on
\* exactly one timer, and its handler then sends resume with the stored
\* sessionId and lastSeq if both are known and identify otherwise; resume is
\* never sent without a stored sessionId.
C26_EveryHelloIsAnswered ==
    /\ HeartbeatAsGiven
    /\ op = "helloSettled" => gw.sent = HandshakeFrame /\ ActiveSocketOpen
    /\ NeverResumeWithoutSession

\* C26: every hello starts the heartbeat at the given interval on exactly
\* one timer; when the token request of its handler has succeeded and the
\* active socket is open at that moment, the handler sends on it resume with
\* the stored sessionId and lastSeq if both are known and identify
\* otherwise, and it sends nothing when the token request fails or no
\* active socket is open; resume is never sent without a stored sessionId.
C26_HelloIsAnsweredOnOpenSocket ==
    /\ HeartbeatAsGiven
    /\ op = "helloSettled" =>
          gw.sent = IF gw.token = "resolved" /\ ActiveSocketOpen
                    THEN HandshakeFrame ELSE NoFrame
    /\ NeverResumeWithoutSession

\* The hello on the second socket is answered with resume while one
\* heartbeat timer runs.
C26_Witness ==
    /\ op = "helloSettled"
    /\ gw.sent.opc = 6
    /\ gw.sent.sock = 2
    /\ gw.intervals = 1

\* The n-th value of the ladder, the last one for every n above its length.
LadderDelay(n) == RECONNECT_DELAYS_MS[Min(n, Len(RECONNECT_DELAYS_MS))]

\* C27: the n-th reconnect since the monitor started or since the last READY
\* or RESUMED has waited the n-th value of the ladder 1 s, 2 s, 5 s, 10 s,
\* 20 s, 30 s (30 s above 6): every reconnect, whatever triggered it,
\* advances the position in the ladder by one.
C27_NthReconnectWaitsNthDelay ==
    op = "timer" /\ gw.waited # Null => gw.waited = LadderDelay(gw.sinceReset)

\* C28: every socket close, reconnect opcode and invalid-session opcode
\* leaves one reconnect timer pending, and the connect attempts started by
\* the timer are one for each socket that closed or received such an opcode
\* and one for each failed connect, never more; at most one reconnect timer
\* is pending at any time; a socket error on its own arms no timer.
C28_OneConnectPerTrigger ==
    [][ /\ gw'.owed >= 0
        /\ gw'.timeouts <= 1
        /\ op' = "close" \/ gw'.last.opc \in {7, 9} =>
              gw'.reconnectTimer # Null /\ gw'.timeouts = 1
        /\ op' = "error" =>
              gw'.timeouts = gw.timeouts /\ gw'.reconnectTimer = gw.reconnectTimer
      ]_vars

\* What the closure sends carries the stored values: heartbeats lastSeq,
\* resume sessionId and lastSeq.
SendsStoredSeq ==
    /\ gw.sent.opc = 1 => gw.sent.seq = gw.lastSeq
    /\ gw.sent.opc = 6 => gw.sent.seq = gw.lastSeq /\ gw.sent.session = gw.sessionId

\* C29 as stated: while the session id is kept lastSeq never decreases (it
\* is the highest sequence number observed since the session id was
\* obtained), it survives reconnects together with sessionId, and it is the
\* value sent in heartbeats and in resume.
C29_LastSeqIsHighest ==
    [][ /\ gw.sessionId # Null /\ gw'.sessionId = gw.sessionId /\ gw.lastSeq # Null
              => gw'.lastSeq >= gw.lastSeq
        /\ gw'.sessionId # Null => gw'.lastSeq = gw'.highest
        /\ op' # "payload" => gw'.lastSeq = gw.lastSeq /\ gw'.sessionId = gw.sessionId
        /\ SendsStoredSeq'
      ]_vars

\* C29: lastSeq is the sequence number of the payload that carried one last
\* since the last invalid-session, also when an earlier payload carried a
\* higher one; it survives reconnects together with sessionId, and it is
\* the value sent in heartbeats and in resume.
C29_LastSeqIsLatest ==
    [][ /\ gw'.lastSeq = gw'.lastCarried
        /\ op' # "payload" => gw'.lastSeq = gw.lastSeq /\ gw'.sessionId = gw.sessionId
        /\ SendsStoredSeq'
      ]_vars

\* With the session id kept, lastSeq is below a sequence number observed
\* before, and it is the one sent in resume on the second socket.
C29_Witness ==
    /\ gw.sessionId # Null
    /\ gw.lastSeq # Null
    /\ gw.lastSeq < gw.highest
    /\ gw.sent.opc = 6
    /\ gw.sent.sock = 2

PendingHandler == \E i \in DOMAIN handlers : handlers[i] = "pending"

\* C24: a handler call that has not returned, and one that throws, leaves
\* the supervisor as it is: when it settles nothing of the session, the
\* dedup cache or the connection changes, and while it is pending the next
\* frame is ACKed, dedup-checked and dispatched (a new handler call is
\* started for it), the watchdog pass, the heartbeat and the reconnect timer
\* run, in the DingTalk session and in the QQ gateway connection alike.
C24_HandlersAreDetached ==
    [][ /\ op' = "handlerSettled" =>
              /\ session' = session
              /\ gateway' = gateway
              /\ processedMessages' = processedMessages
              /\ delivered' = delivered
        /\ op' = "dispatchSettled" =>
              /\ gw'.readyState = gw.readyState
              /\ gw'.activeSocket = gw.activeSocket
              /\ gw'.heartbeatTimer = gw.heartbeatTimer
              /\ gw'.reconnectTimer = gw.reconnectTimer
              /\ gw'.reconnectAttempt = gw.reconnectAttempt
              /\ gw'.connecting = gw.connecting
              /\ gw'.sessionId = gw.sessionId
              /\ gw'.lastSeq = gw.lastSeq
        /\ op' = "frame" =>
              /\ delivered'[Len(delivered')].steps =
                     InboundSteps(delivered'[Len(delivered')].id,
                                  StepsAt(delivered'[Len(delivered')], "onAckError") # {},
                                  delivered'[Len(delivered')].dup,
                                  delivered'[Len(delivered')].parses)
              /\ Len(handlers') = Len(handlers)
                     + (IF delivered'[Len(delivered')].called THEN 1 ELSE 0)
        /\ mode = "dingtalk" /\ PendingHandler =>
              /\ Len(delivered) < MaxDetachedFrames /\ session.pc \in {"connect", "sleep"}
                     => ENABLED DingtalkFrame("m2", FALSE, TRUE)
              /\ session.pc = "sleep" /\ session.passes < MaxDetachedPasses
                     => ENABLED SessionTick(WATCHDOG_INTERVAL_MS, TRUE, TRUE, TRUE)
        /\ mode = "qqbot" /\ gw.dispatching > 0 =>
              /\ gw.heartbeatTimer # Null => ENABLED GwHeartbeat
              /\ gw.reconnectTimer # Null => ENABLED GwReconnectTimerFired
              /\ \A s \in GwSockets :
                    gw.readyState[s] = "OPEN" /\ gw.frames < MaxGwFrames
                        => ENABLED GwPayload(s, [opc |-> 0, t |-> "MESSAGE", s |-> Null,
                                                 d |-> Null])
      ]_vars

\* The first handler call has thrown and the second has not returned; the
\* second frame was dispatched after the first, and the watchdog has run
\* since and has left the session running.
C24_Witness ==
    /\ mode = "dingtalk"
    /\ handlers = <<"rejected", "pending">>
    /\ op = "tick"
    /\ session.pc = "sleep"
    /\ session.state = "running"

\* C30: at most one token request is in flight; a getAccessToken call made
\* while a request is in flight starts none and returns the promise of that
\* request; and a call returns the cached token, without a request, exactly
\* when there is a cached token and the time of the call is more than five
\* minutes before its expiry.
C30_SingleFlightAndMargin ==
    /\ Cardinality(qtoken.inflight) <= 1
    /\ \A i \in DOMAIN qtoken.calls :
          LET c == qtoken.calls[i]
          IN  /\ c.met.inflight # {} =>
                    c.via = "promise" /\ c.met.inflight = {c.req}
              /\ c.via = "cache" <=>
                    /\ c.met.cache # NoCache
                    /\ c.met.at + TOKEN_MARGIN_MS < c.met.cache.expiresAt
              /\ c.via = "cache" => c.token = c.met.cache.token /\ c.req = 0
              /\ c.via = "promise" =>
                    \/ c.req \in c.met.inflight
                    \/ c.met.inflight = {} /\ c.req \notin {qtoken.calls[j].req : j \in 1..(i - 1)}

\* The second call met the request the first had started and got its
\* promise; after the token had arrived, a call one millisecond before the
\* margin got it from the cache.
C30_Witness ==
    /\ Len(qtoken.calls) = 3
    /\ qtoken.calls[1].req = 1
    /\ qtoken.calls[2].met.inflight = {1}
    /\ qtoken.calls[2].req = 1
    /\ qtoken.calls[3].via = "cache"
    /\ qtoken.calls[3].token = 1
    /\ qtoken.calls[3].met.at + TOKEN_MARGIN_MS + 1 = qtoken.calls[3].met.cache.expiresAt

(***************************************************************************)
(* Properties: wecom-app streams, polls and dispatcher callbacks           *)
(***************************************************************************)

\* In this step the handler of request r ran from the body to its end and
\* answered a msgtype=stream request that names a stream that exists.
AnswersRefresh(r) ==
    /\ rq[r].pc = "body"
    /\ rq'[r].pc = "done"
    /\ rq'[r].status = 200
    /\ rq'[r].payload.msg.msgtype = "stream"
    /\ HasStream(streams, rq'[r].payload.msg.streamId)

\* In this step the handler of request r ran from the body to its end and
\* answered a POST (not a refresh request) that repeats the msgid of the
\* message a stream that exists was created for.
AnswersRepeatedMsgid(r) ==
    /\ rq[r].pc = "body"
    /\ rq'[r].pc = "done"
    /\ rq'[r].status = 200
    /\ rq'[r].payload.msg.msgtype # "stream"
    /\ rq'[r].payload.msg.msgid # NoMsgId
    /\ LiveStream(streams, rq'[r].payload.msg.msgid)

\* The reply carries the id, the content and the finish flag of the state.
AnsweredFromState(reply, state) ==
    /\ reply.kind = "stream"
    /\ reply.id = state.streamId
    /\ reply.finish = state.finished
    /\ reply.content = state.content

\* C31 as stated: every poll for an existing stream, a msgtype=stream
\* refresh request or a POST repeating the msgid of the original message, is
\* answered with the latest accumulated content and the current finish flag
\* of the StreamState.
C31_PollsAnsweredFromState ==
    [][ \A r \in Requests :
           /\ AnswersRefresh(r) =>
                 AnsweredFromState(rq'[r].reply,
                                   StreamOf(streams, rq'[r].payload.msg.streamId))
           /\ AnswersRepeatedMsgid(r) =>
                 AnsweredFromState(rq'[r].reply,
                     StreamOf(streams, LiveStreamId(streams, rq'[r].payload.msg.msgid)))
      ]_vars

\* C31 amended: a msgtype=stream refresh request naming an existing stream is
\* answered with the latest accumulated content and the current finish flag
\* of its StreamState; a POST repeating the msgid of the original message is
\* answered with the id of the stream, finish=false and the filler text,
\* whatever the state of the stream.
C31_RefreshAnsweredFromState ==
    [][ \A r \in Requests :
           /\ AnswersRefresh(r) =>
                 AnsweredFromState(rq'[r].reply,
                                   StreamOf(streams, rq'[r].payload.msg.streamId))
           /\ AnswersRepeatedMsgid(r) =>
                 /\ rq'[r].reply.kind = "stream"
                 /\ rq'[r].reply.id = LiveStreamId(streams, rq'[r].payload.msg.msgid)
                 /\ rq'[r].reply.finish = FALSE
                 /\ rq'[r].reply.content = <<31245, 31561, 126>>
      ]_vars

\* A refresh request was answered with the chunk the dispatcher had
\* delivered and the finish flag the completed dispatch had set.
C31_Witness ==
    \E r \in Requests :
       /\ op = "body"
       /\ rq[r].pc = "done"
       /\ rq[r].payload.msg.msgtype = "stream"
       /\ rq[r].payload.msg.streamId # r
       /\ HasStream(streams, rq[r].payload.msg.streamId)
       /\ rq[r].reply.content = <<97>>
       /\ rq[r].reply.finish

\* The text e occurs in the text c.
ContainsText(c, e) ==
    \E i \in 0..(Len(c) - Len(e)) : SubSeq(c, i + 1, i + Len(e)) = e

\* In this step the dispatch started for stream id completed.
Completes(id) ==
    /\ op' = "resolved"
    /\ \E k \in 1..Len(dispatches) :
          /\ dispatches[k].streamId = id
          /\ dispatches[k].state = "running"
          /\ dispatches'[k].state = "resolved"

\* In this step the dispatch started for stream id failed: its promise was
\* rejected, or its error callback was called.
Fails(id) ==
    \/ /\ op' = "rejected"
       /\ \E k \in 1..Len(dispatches) :
             /\ dispatches[k].streamId = id
             /\ dispatches[k].state = "running"
             /\ dispatches'[k].state = "rejected"
    \/ /\ op' = "error"
       /\ \E k \in 1..Len(dispatches) :
             /\ dispatches[k].streamId = id
             /\ dispatches[k].state = "running"
       /\ \A k \in 1..Len(dispatches) :
             (dispatches[k].streamId # id /\ HasStream(streams, dispatches[k].streamId))
                => StreamOf(streams', dispatches[k].streamId)
                     = StreamOf(streams, dispatches[k].streamId)
       /\ HasStream(streams, id) => StreamOf(streams', id).error

Arrives(r) == rq[r].pc = "new" /\ rq'[r].pc # "new"

\* The stream was created, or last updated, more than the TTL before t.
CreatedBeforeTtl(st, t) == st.createdAt < t - STREAM_TTL_MS
UpdatedBeforeTtl(st, t) == st.updatedAt < t - STREAM_TTL_MS

\* The index names only streams that exist.
IndexNamesStreams(ss, index) == \A m \in DOMAIN index : HasStream(ss, index[m])

\* In this step the handler of request r answered a refresh request for a
\* stream that had been created and is gone.
AnswersRefreshOfPruned(r) ==
    /\ rq[r].pc = "body"
    /\ rq'[r].pc = "done"
    /\ rq'[r].payload.msg.msgtype = "stream"
    /\ rq'[r].payload.msg.streamId \in Requests
    /\ rq[rq'[r].payload.msg.streamId].pc = "done"
    /\ ~HasStream(streams, rq'[r].payload.msg.streamId)

\* In this step the handler of request r answered a message whose msgid an
\* earlier request had created a stream for, and that stream is gone.
AnswersRedeliveryOfPruned(r) ==
    /\ rq[r].pc = "body"
    /\ rq'[r].pc = "done"
    /\ rq'[r].payload.msg.msgtype = "text"
    /\ rq'[r].payload.msg.msgid # NoMsgId
    /\ ~LiveStream(streams, rq'[r].payload.msg.msgid)
    /\ \E q \in Requests :
          /\ rq[q].pc = "done"
          /\ rq[q].payload.msg.msgid = rq'[r].payload.msg.msgid
          /\ rq[q].reply.id = q

\* A refresh of a pruned stream returns nothing of it, and a redelivery of
\* its msgid gets a new stream and, with a runtime, a new dispatch.
AfterPruning ==
    \A r \in Requests :
       /\ AnswersRefreshOfPruned(r) =>
             /\ rq'[r].reply.content = <<>>
             /\ rq'[r].reply.finish
             /\ streams' = streams
       /\ AnswersRedeliveryOfPruned(r) =>
             /\ rq'[r].reply.id = r
             /\ \A q \in Requests \ {r} :
                   rq'[q].payload.msg.msgtype # "stream" => rq'[q].reply.id # r
             /\ ~HasStream(streams, r)
             /\ HasStream(streams', r)
             /\ msgidToStreamId'[rq'[r].payload.msg.msgid] = r
             /\ Len(dispatches') = Len(dispatches) + (IF core THEN 1 ELSE 0)

\* C33 as stated: a StreamState older than the TTL is removed at the next
\* webhook request, finished or not, together with its msgid mapping; a
\* refresh for its id then returns no content of it and a redelivery of its
\* msgid is handled as a new message.
C33_OldStreamsArePruned ==
    [][ /\ \A r \in Requests :
              Arrives(r) =>
                 /\ \A k \in 1..Len(streams') : ~CreatedBeforeTtl(streams'[k], wnow)
                 /\ IndexNamesStreams(streams', msgidToStreamId')
        /\ AfterPruning
      ]_vars

\* C33 amended: the same for a StreamState that has not been updated for
\* longer than the TTL; a stream updated since is kept, with its mapping.
C33_IdleStreamsArePruned ==
    [][ /\ \A r \in Requests :
              Arrives(r) =>
                 /\ \A k \in 1..Len(streams') : ~UpdatedBeforeTtl(streams'[k], wnow)
                 /\ \A k \in 1..Len(streams) :
                       ~UpdatedBeforeTtl(streams[k], wnow)
                          => /\ HasStream(streams', streams[k].streamId)
                             /\ StreamOf(streams', streams[k].streamId) = streams[k]
                 /\ IndexNamesStreams(streams', msgidToStreamId')
                 /\ \A m \in DOMAIN msgidToStreamId :
                       HasStream(streams', msgidToStreamId[m])
                          => /\ m \in DOMAIN msgidToStreamId'
                             /\ msgidToStreamId'[m] = msgidToStreamId[m]
        /\ AfterPruning
      ]_vars

\* The stream of a message was pruned while its dispatch was running; the
\* redelivery of the message got a new stream and a second dispatch.
C33_Witness ==
    \E r \in Requests, q \in Requests :
       /\ op = "body"
       /\ r # q
       /\ rq[q].pc = "done" /\ rq[r].pc = "done"
       /\ rq[q].payload.msg.msgid = "m1" /\ rq[r].payload.msg.msgid = "m1"
       /\ rq[q].reply.id = q /\ rq[r].reply.id = r
       /\ ~HasStream(streams, q)
       /\ HasStream(streams, r)
       /\ Len(dispatches) = 2
       /\ dispatches[1].state = "running"

(***************************************************************************)
(* Properties: receiverId of a decrypted payload                           *)
(***************************************************************************)

\* The receiverId that follows the content in the envelope of the encrypted
\* value: the bytes between the content and the padding.
EnvelopeReceiverId ==
    LET raw == CbcDecrypt(aesKey, SubSeq(aesKey, 1, 16), Base64Decode(encrypted))
    IN  Utf8Decode(SubSeq(raw, 21 + Len(Utf8Encode(text)), Len(raw) - raw[Len(raw)]))

\* C34 as stated: decryption fails whenever the receiverId that follows the
\* content in the decrypted envelope differs from the receive id configured
\* for the account; no payload is returned as plaintext with another
\* receiverId.
C34_ForeignReceiverRejected ==
    (decrypted # <<>> /\ EnvelopeReceiverId # receiverId) => decrypted = <<"error">>

\* C34 amended: decryption fails whenever the account has a receive id
\* configured and the receiverId in the envelope differs from it; an account
\* without receive id gets the content whatever receiverId follows it.
C34_ForeignReceiverRejectedIfConfigured ==
    decrypted # <<>> =>
       IF receiverId # <<>> /\ EnvelopeReceiverId # receiverId
       THEN decrypted = <<"error">>
       ELSE decrypted = <<"ok", text>>

\* A payload encrypted for one receive id was refused by an account
\* configured with another.
C34_Witness ==
    /\ op = "decrypt"
    /\ decrypted = <<"error">>
    /\ receiverId # <<>>
    /\ EnvelopeReceiverId # <<>>
    /\ EnvelopeReceiverId # receiverId

(***************************************************************************)
(* Properties: size of the DingTalk dedup cache                            *)
(***************************************************************************)

\* The entries are in the order of their timestamps: the order of the Map,
\* which is the order of insertion, is the order of arrival.
OldestFirst(cache) ==
    \A k \in 1..(Len(cache) - 1) : cache[k][2] <= cache[k + 1][2]

\* The cache after the intake of a new id at time t: the entry of the id is
\* the last, before it are the latest of the entries that have not expired,
\* in their order, and one of them is missing only if the cache is full.
EvictsOldest(cache, after, id, t) ==
    LET base == SelectSeq(cache, LAMBDA e : e[1] # id /\ ~(t - e[2] > MESSAGE_DEDUP_TTL_MS))
        n == Len(after) - 1
    IN  /\ n >= 0
        /\ n <= Len(base)
        /\ after[n + 1] = <<id, t>>
        /\ SubSeq(after, 1, n) = SubSeq(base, Len(base) - n + 1, Len(base))
        /\ n < Len(base) => Len(after) = MESSAGE_DEDUP_MAX_ENTRIES

\* C35: after every intake of a frame the cache holds at most 10000 entries;
\* when the limit is exceeded the entries removed are those inserted
\* earliest, never the entry just inserted.
C35_CacheBounded ==
    [][ /\ Len(processedMessages') <= MESSAGE_DEDUP_MAX_ENTRIES
        /\ OldestFirst(processedMessages')
        /\ (op' = "frame" /\ Len(delivered') = Len(delivered) + 1) =>
              LET e == delivered'[Len(delivered')]
              IN  IF e.id = NoId \/ e.dup
                  THEN processedMessages' = processedMessages
                  ELSE EvictsOldest(processedMessages, processedMessages', e.id, now')
      ]_vars

\* A new id arrived when the cache held 10000 entries that had not expired:
\* the oldest entry is gone, the new entry is the last, 10000 are held.
C35_Witness ==
    /\ op = "frame"
    /\ Len(processedMessages) = MESSAGE_DEDUP_MAX_ENTRIES
    /\ processedMessages[1][1] = "f2"
    /\ processedMessages[MESSAGE_DEDUP_MAX_ENTRIES][1] = "m1"
    /\ MapGet(processedMessages, "f1") = -1

(***************************************************************************)
(* Properties: QQ, close events of replaced sockets                        *)
(***************************************************************************)

\* In this step socket s emitted close while another socket, created by a
\* newer connect, was the current one.
StaleClose(s) ==
    /\ op' = "close"
    /\ gw.readyState[s] # "CLOSED"
    /\ gw'.readyState[s] = "CLOSED"
    /\ gw.activeSocket # 0
    /\ gw.activeSocket > s

\* C36: a close event emitted by a socket that is no longer the current one
\* never closes or discards the current socket, never clears the current
\* heartbeat timer and never schedules a reconnect.
C36_StaleCloseIsIgnored ==
    [][ \A s \in GwSockets :
           StaleClose(s) =>
              /\ gw'.activeSocket = gw.activeSocket
              /\ gw'.readyState[gw.activeSocket] = gw.readyState[gw.activeSocket]
              /\ gw'.heartbeatTimer = gw.heartbeatTimer
              /\ gw'.reconnectTimer = gw.reconnectTimer
              /\ gw'.reconnectAttempt = gw.reconnectAttempt
      ]_vars

(***************************************************************************)
(* Properties: DingTalk intake, frames that fail to parse                  *)
(***************************************************************************)

\* Frame i carried a message id, was not a duplicate and failed to parse;
\* frame j is the next frame with that id, its payload parses, and the cache
\* was not cleared in between.
RetryOfUnparsed(i, j) ==
    /\ i < j
    /\ delivered[i].id \in MsgIds
    /\ ~delivered[i].dup
    /\ ~delivered[i].parses
    /\ delivered[j].id = delivered[i].id
    /\ delivered[j].parses
    /\ \A k \in (i + 1)..(j - 1) : delivered[k].id \notin {delivered[i].id, "clear"}

\* C37 as stated: a frame whose payload fails to parse does not use up its
\* message id; a later frame with the same id and a parseable payload,
\* arriving within the TTL, is dispatched to the downstream handler.
C37_UnparsedKeepsIdFree ==
    \A i \in 1..Len(delivered), j \in 1..Len(delivered) :
       (RetryOfUnparsed(i, j) /\ delivered[j].at - delivered[i].at < MESSAGE_DEDUP_TTL_MS)
          => delivered[j].called

\* C37 amended: a frame that carries a message id and fails to parse uses up
\* the id; a later frame with the same id and a parseable payload is dropped
\* as a duplicate when it arrives less than 60000 ms later and dispatched
\* when it arrives 60000 ms later or more.
C37_UnparsedUsesId ==
    \A i \in 1..Len(delivered), j \in 1..Len(delivered) :
       RetryOfUnparsed(i, j) =>
          IF delivered[j].at - delivered[i].at < MESSAGE_DEDUP_TTL_MS
          THEN delivered[j].dup /\ ~delivered[j].called
          ELSE ~delivered[j].dup /\ delivered[j].called

\* A frame failed to parse and a frame with the same id and a parseable
\* payload, 1 ms later, was dropped as a duplicate.
C37_Witness ==
    \E i \in 1..Len(delivered), j \in 1..Len(delivered) :
       /\ RetryOfUnparsed(i, j)
       /\ delivered[j].at - delivered[i].at = 1
       /\ delivered[j].dup
       /\ "onDedupeHit" \in {delivered[j].steps[k] : k \in 1..Len(delivered[j].steps)}

(***************************************************************************)
(* Properties: wecom-app streams, finished streams                         *)
(***************************************************************************)

\* C38: once a StreamState has finished=true, finished never becomes false
\* again and its content is never changed: no chunk is appended and no
\* error text is written after completion.
C38_FinishedIsFinal ==
    [][ \A id \in Requests :
           (/\ HasStream(streams, id)
            /\ StreamOf(streams, id).finished
            /\ HasStream(streams', id))
              => /\ StreamOf(streams', id).finished
                 /\ StreamOf(streams', id).content = StreamOf(streams, id).content
      ]_vars

\* The stream that request id created is gone.
Pruned(ss, id) ==
    /\ rq[id].pc = "done"
    /\ rq[id].reply.kind = "stream"
    /\ rq[id].reply.id = id
    /\ ~HasStream(ss, id)

\* C39: after every step of a webhook handler or of a dispatcher callback,
\* every value in msgidToStreamId is the id of a StreamState in streams; a
\* stream that has been pruned is not there after any later step, a chunk,
\* error or completion callback of its dispatch included.
C39_IndexNamesLiveStreams ==
    [][ /\ IndexNamesStreams(streams', msgidToStreamId')
        /\ \A id \in Requests : Pruned(streams, id) => ~HasStream(streams', id)
        /\ (op' \in {"chunk", "error", "resolved", "rejected"}) =>
              /\ Len(streams') = Len(streams)
              /\ msgidToStreamId' = msgidToStreamId
      ]_vars

\* The stream of a running dispatch was pruned with its msgid mapping, and
\* the dispatch then delivered a chunk.
C39_Witness ==
    /\ op = "chunk"
    /\ Len(dispatches) = 1
    /\ dispatches[1].state = "running"
    /\ dispatches[1].msgid = "m1"
    /\ Pruned(streams, dispatches[1].streamId)
    /\ "m1" \notin DOMAIN msgidToStreamId

(***************************************************************************)
(* Properties: QQ, module state after the monitor has settled              *)
(***************************************************************************)

\* The promise of call m has settled and no later call has started a
\* monitor.
SettledLast(m) ==
    /\ qcall[m] = "started"
    /\ qpromise[m] \in {"resolved", "rejected"}
    /\ \A k \in QCalls : k > m => qcall[k] # "started"

\* C40: whenever the promise returned by monitorQQBotProvider has settled,
\* activeSocket, activeAccountId, activePromise and activeStop are null, also
\* when the monitor was started with an already-aborted signal.
C40_SettledLeavesCleanState ==
    \A m \in QCalls :
       SettledLast(m) =>
          /\ activeSocket = 0
          /\ activeAccountId = "none"
          /\ activePromise = 0
          /\ activeStop = 0
====
